---- MODULE Spec2Model ----
(***************************************************************************)
(* Order placement and product queries of the e-commerce demo backend.     *)
(*                                                                         *)
(* Five server programs are modelled, one per behaviour (variable server): *)
(*   "sql"     the SQL service            src/unnamed/part_012, lines 70-  *)
(*   "api"     the earlier API server     src/api/server.js                *)
(*   "modular" the modular API            src/api/services/*.js,           *)
(*                                        src/unnamed/part_009/013/014     *)
(*   "mongo"   the document service       src/unnamed/part_007             *)
(*   "cmd"     the command API            src/unnamed/part_011             *)
(*                                                                         *)
(* A request handler is an async function: it runs without interruption    *)
(* from one await to the next.  One step of the model is one event of the  *)
(* event loop: the arrival of a request, or the completion of the database *)
(* statement a request awaits, each followed by the handler's code up to   *)
(* the next statement it issues or the response it sends.                  *)
(***************************************************************************)
EXTENDS Integers, Sequences, FiniteSets, TLC

\* ------------------------------------------------------------------ bounds
MaxReq   == 2   \* order requests in one behaviour of SpecOverlap
SerialReqs == 1 \* order requests in one behaviour of Spec, served one by one
MaxItems == 2   \* items in one payload
PoolMax  == 1   \* connections of the pool in SpecOverlap (pg's default is
                \* 10; the model scales it down together with MaxReq)

Reqs  == 1 .. MaxReq
Conns == 1 .. MaxReq

Servers == {"sql", "api", "modular", "mongo"}

\* ------------------------------------------------- JSON values of a payload
\* A JSON value is [k, v]: k = "num" carries the integer v (prices are in
\* cents), "undef" is an absent field, "nan" a value that Number()/parseInt()
\* cannot parse, "inf" a number beyond the double range (1e999).
Num(v) == [k |-> "num", v |-> v]
Undef  == [k |-> "undef", v |-> 0]
NaN    == [k |-> "nan", v |-> 0]
Inf    == [k |-> "inf", v |-> 0]

Item(id, quantity, price) == [id |-> id, quantity |-> quantity, price |-> price]

\* A string is the sequence of its characters.
\* The items a payload is built from: two valid ones, and one for each way an
\* item can be wrong.
ItemKinds ==
    { Item(<<"p">>, Num(1), Num(5)),
      Item(<<"q">>, Num(2), Num(3)),
      Item(<< >>,   Num(1), Num(5)),
      Item(<<" ">>, Num(1), Num(5)),
      Item(<<"p">>, Num(0), Num(5)),
      Item(<<"p">>, Undef,  Undef),
      Item(<<"p">>, Num(1), NaN),
      Item(<<"q">>, Num(1), Inf),
      Item(<<"p">>, Num(1), Num(-5)) }

\* `items` of the body: absent, not an array, or an array of items.
ItemLists == UNION { [1 .. n -> ItemKinds] : n \in 0 .. MaxItems }
Bodies == { [items |-> [k |-> "undef", list |-> << >>]],
            [items |-> [k |-> "scalar", list |-> << >>]] }
          \cup { [items |-> [k |-> "array", list |-> l]] : l \in ItemLists }

\* --------------------------------------------------------- JS coercions
\* parseInt(x, 10): NaN unless x is a number (or a numeric string).
parseInt(x) == IF x.k = "num" THEN x ELSE IF x.k = "inf" THEN NaN ELSE NaN

\* x || 1 : 0 and NaN are falsy.
OrOne(x) == IF x.k = "num" /\ x.v # 0 THEN x ELSE Num(1)

\* Math.max(1, x) for a number x.
Max1(x) == IF x.k = "inf" THEN x ELSE IF x.v > 1 THEN x ELSE Num(1)

\* Number.isFinite(x)
isFinite(x) == x.k = "num"

Min(S) == CHOOSE x \in S : \A y \in S : x <= y

\* --------------------------------------------------------------- state
VARIABLES
    server,   \* which server program runs in this behaviour
    tables,   \* the relations that exist in the Postgres database
    rows,     \* the rows of the relational tables: [tab, oid, n, pid, price, freight, by];
              \* by = 0 for a committed row, by = c for a row written in the
              \* open transaction of connection c and not committed yet
    tx,       \* tx[c]: transaction state of connection c: "none", "open", "aborted"
    poolSize, \* the most clients the pool opens (its `max` option)
    live,     \* the clients the pool has opened and not destroyed
    idle,     \* the pool's idle clients, a stack (the last one is taken first)
    pending,  \* requests waiting for a client, first come first served
    conn,     \* conn[r]: the client that runs the statement request r awaits
              \* (0: none, or r waits in pending)
    docs,     \* documents of the Mongo collection `orders`: [oid, n, pid, price]
    products, \* documents of the Mongo collection `products`: the summary
              \* of a product, [pid, price, order_count]
    req,      \* req[r]: the handler instance of request r
    res,      \* the answer to the last request that is not a checkout, with
              \* its request and what its handler did
    env       \* the environment of the server process: [set, val] of ALLOW_SQL

vars == << server, tables, rows, tx, poolSize, live, idle, pending, conn, docs, products, req, res, env >>

\* ------------------------------------------------------- relational schema
\* src/scripts/schema.sql creates the staging table and the normalized tables.
NormalizedTables ==
    { "orders_header", "orders_timestamps", "order_items_core",
      "order_item_pricing", "payment_type_dim", "order_payment_method",
      "order_payment_amount" }
StagingTables == { "orders" }
FullSchema == NormalizedTables \cup StagingTables

CharWidth == 32   \* CHAR(32) of order_id, customer_id, product_id, seller_id

\* A row also has the review columns of its table: review_id (rid),
\* review_creation_date (date, a day number) and review_comment_message (msg);
\* they are NULL in a row that carries no review.
NULL == "NULL"

Row(tab, oid, n, pid, price, freight, by) ==
    [tab |-> tab, oid |-> oid, n |-> n, pid |-> pid, price |-> price,
     freight |-> freight, by |-> by, rid |-> 0, date |-> 0, msg |-> NULL]

\* What connection c sees under READ COMMITTED: committed rows and its own.
Visible(c) == { x \in rows : x.by = 0 \/ x.by = c }

HasRow(c, tab, oid, n) ==
    \E x \in Visible(c) : x.tab = tab /\ x.oid = oid /\ x.n = n

\* A row with the same key written by another connection's open transaction:
\* an INSERT of that key waits for that transaction to end.
LockedBy(c, tab, oid, n) ==
    \E x \in rows : x.tab = tab /\ x.oid = oid /\ x.n = n /\ x.by \notin {0, c}

\* The foreign keys added in section 4 of schema.sql.
FkOk(c, s) ==
    CASE s.tab = "orders_timestamps"    -> HasRow(c, "orders_header", s.oid, 0)
      [] s.tab = "order_items_core"     -> HasRow(c, "orders_header", s.oid, 0)
      [] s.tab = "order_item_pricing"   -> HasRow(c, "order_items_core", s.oid, s.n)
      [] s.tab = "order_payment_method" -> /\ HasRow(c, "orders_header", s.oid, 0)
                                           /\ HasRow(c, "payment_type_dim", 0, 0)
      [] s.tab = "order_payment_amount" -> HasRow(c, "order_payment_method", s.oid, s.n)
      [] OTHER -> TRUE

\* A statement: [op, tab, oid, n, pid, price, freight, len, bad]; len is the
\* length of the longest CHAR(32) value it carries, bad says that it carries a
\* value its column rejects (NULL or text for a NUMERIC NOT NULL column).
Stmt(op, tab, oid, n, pid, price, len) ==
    [op |-> op, tab |-> tab, oid |-> oid, n |-> n, pid |-> pid,
     price |-> price, freight |-> 0, len |-> len, bad |-> FALSE]

\* INSERT INTO order_item_pricing (order_id, order_item_id, price, freight_value)
Pricing(oid, n, price, freight) ==
    [Stmt("insert", "order_item_pricing", oid, n, << >>, price, 32) EXCEPT !.freight = freight]

\* Does INSERT s succeed on connection c (no constraint of schema.sql is broken)?
InsertOk(c, s) ==
    /\ s.tab \in tables
    /\ s.len <= CharWidth
    /\ ~HasRow(c, s.tab, s.oid, s.n)
    /\ FkOk(c, s)

\* ------------------------------------------------------ statement effects
\* hit: the statement is struck by an error that the data does not explain
\* (a timeout, a lost table, a server-side failure).
StmtOk(c, s, hit) ==
    /\ ~hit
    /\ ~s.bad
    /\ s.op \in {"begin", "insert", "upsert", "select", "probe"} => tx[c] # "aborted"
    /\ s.op = "insert" => (server = "modular" \/ InsertOk(c, s))
    /\ s.op = "upsert" => s.tab \in tables
    /\ s.op = "select" => (server = "modular" \/ s.tab \in tables)

\* INSERT ... ON CONFLICT DO NOTHING waits while another open transaction
\* holds an uncommitted row with the same key.
Ready(c, s) ==
    s.op = "upsert" => (HasRow(c, s.tab, s.oid, s.n) \/ ~LockedBy(c, s.tab, s.oid, s.n))

Written(c, s) ==
    Row(s.tab, s.oid, s.n, s.pid, s.price, s.freight, IF tx[c] = "open" THEN c ELSE 0)

\* (variant for C20: ROLLBACK is followed by a clean-up of the order's rows)
RowsAfterByOrder(c, s, ok) ==
    CASE s.op = "insert" /\ ok -> rows \cup { Written(c, s) }
      [] s.op = "upsert" /\ ok ->
            IF HasRow(c, s.tab, s.oid, s.n) THEN rows ELSE rows \cup { Written(c, s) }
      [] s.op = "commit" /\ ok /\ tx[c] = "open" ->
            { IF x.by = c THEN [x EXCEPT !.by = 0] ELSE x : x \in rows }
      [] s.op = "rollback" /\ ok ->
            { x \in rows : x.by # c /\ x.oid # s.oid }
      [] s.op = "commit" /\ ok ->
            { x \in rows : x.by # c }
      [] OTHER -> rows

RowsAfter(c, s, ok) ==
    CASE s.op = "insert" /\ ok -> rows \cup { Written(c, s) }
      [] s.op = "upsert" /\ ok ->
            IF HasRow(c, s.tab, s.oid, s.n) THEN rows ELSE rows \cup { Written(c, s) }
      [] s.op = "commit" /\ ok /\ tx[c] = "open" ->
            { IF x.by = c THEN [x EXCEPT !.by = 0] ELSE x : x \in rows }
      [] s.op \in {"commit", "rollback"} /\ ok ->
            { x \in rows : x.by # c }
      [] OTHER -> rows

TxAfter(c, s, ok) ==
    CASE s.op = "begin" /\ ok -> "open"
      [] s.op \in {"commit", "rollback"} /\ ok -> "none"
      [] ~ok /\ tx[c] = "open" -> "aborted"
      [] OTHER -> tx[c]

\* the rows every connection sees
Committed == { x \in rows : x.by = 0 }

\* ------------------------------------------------------- handler instances
\* route: "orders" for POST /api/orders, "products" for POST /api/products;
\* before: what the two stores held when the request arrived (kept for the
\* properties that compare the stores before and after a request); sent: the
\* transaction statements the handler has issued; thrown: the message of the
\* error its catch block caught; at: the statement that error came from;
\* rel: how many times the handler has called client.release(); log: the
\* statements it has issued, in their order, each with the loop counters
NoBody == [items |-> [k |-> "undef", list |-> << >>]]

NewReq ==
    [pc |-> "new", route |-> "orders", body |-> NoBody, cust |-> "undef",
     i |-> 0, c |-> 0, n |-> 0, price |-> 0, total |-> 0, src |-> "",
     status |-> 0, rtotal |-> 0, err |-> "", ecode |-> 0, db |-> FALSE,
     before |-> {}, beforeDocs |-> {}, sent |-> {}, thrown |-> "", at |-> "",
     rel |-> 0, log |-> << >>]

Retired == [NewReq EXCEPT !.pc = "retired"]

\* res.status(status).json(...)
Respond(q, status, total, err) ==
    [q EXCEPT !.pc = "responded", !.status = status, !.rtotal = total, !.err = err]

\* await pool.query(...) / client.query(...): the handler now waits for pc.
Issue(q, pc) ==
    [q EXCEPT !.pc = pc, !.db = TRUE,
              !.sent = IF pc \in {"begin", "commit", "rollback"} THEN @ \cup {pc} ELSE @,
              !.log = Append(@, [pc |-> pc, i |-> q.i, c |-> q.c, n |-> q.n])]

\* (variant for C3: the catch block answers without ROLLBACK)
ThrowNoRollback(q, e, code) == Respond([q EXCEPT !.ecode = code], code, 0, e)

\* an exception inside the try block: the catch block issues ROLLBACK
Throw(q, e, code) ==
    Issue([q EXCEPT !.err = e, !.ecode = code, !.thrown = e,
                    !.at = IF e = "sql error" THEN q.pc ELSE ""], "rollback")

Items(q) == q.body.items.list

\* Number(x): an absent value gives NaN
Number(x) == IF x.k = "undef" THEN NaN ELSE x

\* String(x).trim(): white space is cut from both ends
RECURSIVE Trim(_)
Trim(str) ==
    IF str = << >> THEN str
    ELSE IF Head(str) = " " THEN Trim(Tail(str))
    ELSE IF str[Len(str)] = " " THEN Trim(SubSeq(str, 1, Len(str) - 1))
    ELSE str

\* ------------------------------------ checkout of the SQL service ("sql")
DEFAULT_FREIGHT_PER_ITEM == 0

\* qty = Math.max(1, parseInt(item?.quantity, 10) || 1)
SqlQty(it) == Max1(OrOne(parseInt(it.quantity))).v

\* price = item?.price != null ? Number(item.price) : 0
SqlPrice(it) == IF it.price.k # "undef" THEN Number(it.price) ELSE Num(0)

\* total += qty * (price + DEFAULT_FREIGHT_PER_ITEM)
SqlLineTotal(it) == SqlQty(it) * (SqlPrice(it).v + DEFAULT_FREIGHT_PER_ITEM)

\* the two `continue` tests of the item loop
SqlItemOk(it) == Trim(it.id) # << >> /\ isFinite(SqlPrice(it))

\* The item loop from item j on: skip the items that fail the tests, insert
\* the first one that passes; after the last item, throw when nothing was
\* inserted and go on to the payment rows otherwise.
SqlLoop(q, j) ==
    LET S == { k \in j .. Len(Items(q)) : SqlItemOk(Items(q)[k]) }
    IN  IF S # {} THEN Issue([q EXCEPT !.i = Min(S), !.c = 0], "core")
        ELSE IF q.n = 1 THEN Throw(q, "No valid items to insert for this order", 400)
        ELSE Issue(q, "ptype")

\* (variant for C7: the test of `items` comes after BEGIN)
SqlStartNoCheck(q) == Issue(q, "begin")

\* const items = Array.isArray(req.body?.items) ? req.body.items : [];
\* if (!items.length) return res.status(400)...
SqlStart(q) ==
    IF Len(Items(q)) = 0 THEN Respond(q, 400, 0, "items required")
    ELSE Issue(q, "begin")

\* (variant for C24: the payment amount is inserted before its method)
SqlNextAmountFirst(q, ok) ==
    IF ~ok
    THEN IF q.pc = "rollback" THEN Respond(q, 400, 0, q.err)
         ELSE Throw(q, "sql error", 400)
    ELSE CASE q.pc = "begin"   -> Issue(q, "header")
           [] q.pc = "header"  -> Issue(q, "ts")
           [] q.pc = "ts"      -> SqlLoop([q EXCEPT !.n = 1, !.total = 0], 1)
           [] q.pc = "core"    -> Issue(q, "pricing")
           [] q.pc = "pricing" ->
                LET it == Items(q)[q.i]
                IN  IF q.c + 1 < SqlQty(it)
                    THEN Issue([q EXCEPT !.c = @ + 1, !.n = @ + 1], "core")
                    ELSE SqlLoop([q EXCEPT !.n = @ + 1, !.total = @ + SqlLineTotal(it)],
                                 q.i + 1)
           [] q.pc = "ptype"   -> Issue(q, "pamount")
           [] q.pc = "pmethod" -> Issue(q, "commit")
           [] q.pc = "pamount" -> Issue(q, "pmethod")
           [] q.pc = "commit"  -> Respond(q, 201, q.total, "")
           [] q.pc = "rollback" -> Respond(q, 400, 0, q.err)

\* The handler's code after the statement q.pc has completed, up to the next
\* await or the response.
SqlNext(q, ok) ==
    IF ~ok
    THEN IF q.pc = "rollback" THEN Respond(q, 400, 0, q.err)
         ELSE Throw(q, "sql error", 400)
    ELSE CASE q.pc = "begin"   -> Issue(q, "header")
           [] q.pc = "header"  -> Issue(q, "ts")
           [] q.pc = "ts"      -> SqlLoop([q EXCEPT !.n = 1, !.total = 0], 1)
           [] q.pc = "core"    -> Issue(q, "pricing")
           [] q.pc = "pricing" ->
                LET it == Items(q)[q.i]
                IN  IF q.c + 1 < SqlQty(it)
                    THEN Issue([q EXCEPT !.c = @ + 1, !.n = @ + 1], "core")
                    ELSE SqlLoop([q EXCEPT !.n = @ + 1, !.total = @ + SqlLineTotal(it)],
                                 q.i + 1)
           [] q.pc = "ptype"   -> Issue(q, "pmethod")
           [] q.pc = "pmethod" -> Issue(q, "pamount")
           [] q.pc = "pamount" -> Issue(q, "commit")
           [] q.pc = "commit"  -> Respond(q, 201, q.total, "")
           [] q.pc = "rollback" -> Respond(q, 400, 0, q.err)

\* customerId = rawCustomerId.slice(0, 32); the guest placeholder has 32
\* characters, and a supplied id is cut to 32.
SqlCustomerLen(q) == 32

\* The SQL statement the handler of request r awaits.
SqlStmt(r, q) ==
    CASE q.pc = "begin"    -> Stmt("begin", "", r, 0, << >>, 0, 0)
      [] q.pc = "header"   -> Stmt("insert", "orders_header", r, 0, << >>, 0, SqlCustomerLen(q))
      [] q.pc = "ts"       -> Stmt("insert", "orders_timestamps", r, 0, << >>, 0, 32)
      [] q.pc = "core"     -> Stmt("insert", "order_items_core", r, q.n,
                                   Trim(Items(q)[q.i].id), 0, 32)
      [] q.pc = "pricing"  -> Pricing(r, q.n, SqlPrice(Items(q)[q.i]).v,
                                      DEFAULT_FREIGHT_PER_ITEM)
      [] q.pc = "ptype"    -> Stmt("upsert", "payment_type_dim", 0, 0, << >>, 0, 6)
      [] q.pc = "pmethod"  -> Stmt("insert", "order_payment_method", r, 1, << >>, 0, 32)
      [] q.pc = "pamount"  -> Stmt("insert", "order_payment_amount", r, 1, << >>, q.total, 32)
      [] q.pc = "commit"   -> Stmt("commit", "", r, 0, << >>, 0, 0)
      [] q.pc = "rollback" -> Stmt("rollback", "", r, 0, << >>, 0, 0)

\* ------------------------------------------- source resolver (monolithic)
\* tableExists(name): SELECT to_regclass($1)
tableExists(name) == name \in tables

\* (variant for C14: the variant found by the last call is kept and returned)
pickProductSourceCached ==
    IF res.last.called THEN res.last.src
    ELSE IF tableExists("order_items_core") /\ tableExists("order_item_pricing")
         THEN "normalized"
         ELSE IF tableExists("orders") THEN "staging" ELSE "none"

\* pickProductSource of api/server.js and of the SQL service: both normalized
\* tables are probed, the staging table only when one of them is missing.
pickProductSource ==
    IF tableExists("order_items_core") /\ tableExists("order_item_pricing")
    THEN "normalized"
    ELSE IF tableExists("orders") THEN "staging" ELSE "none"

RECURSIVE SumPrice(_)
SumPrice(S) ==
    IF S = {} THEN 0
    ELSE LET x == CHOOSE y \in S : TRUE IN x.price + SumPrice(S \ {x})

\* a / b rounded to the nearest integer, halves away from zero (b > 0)
RoundDiv(a, b) ==
    IF a >= 0 THEN (2 * a + b) \div (2 * b) ELSE 0 - ((2 * (0 - a) + b) \div (2 * b))

\* The line items with product id pid that connection c sees, each with its
\* pricing row (the JOIN of order_items_core and order_item_pricing).
JoinedPricing(c, pid) ==
    { x \in Visible(c) :
        /\ x.tab = "order_item_pricing"
        /\ \E y \in Visible(c) : /\ y.tab = "order_items_core" /\ y.pid = pid
                                 /\ y.oid = x.oid /\ y.n = x.n }

StagingRows(c, pid) == { x \in Visible(c) : x.tab = "orders" /\ x.pid = pid }

\* SELECT AVG(price) ...: the average in cents, 0 when there is no row
\* (rows[0]?.p ? Number(rows[0].p) : 0)
AvgPrice(S) == IF S = {} THEN 0 ELSE RoundDiv(SumPrice(S), Cardinality(S))

\* ------------------------------------------ checkout of api/server.js ("api")
ItemStride == 1000

\* qty = parseInt(it.qty ?? it.quantity ?? 1, 10)
ApiQty(it) == IF it.quantity.k = "undef" THEN Num(1) ELSE parseInt(it.quantity)

\* if (!pid || !(qty > 0)) throw new Error("Invalid item")
ApiItemOk(it) == it.id # << >> /\ ApiQty(it).k = "num" /\ ApiQty(it).v > 0

\* itemId = i * 1000 + c + 1, i counted from 0
ItemId(i, c) == i * ItemStride + c + 1
ApiItemId(q) == ItemId(q.i - 1, q.c)

\* The item numbers the two loops generate for a payload whose items have
\* the quantities qtys, from item j on, in the order of the inserts.
RECURSIVE ItemIds(_, _)
ItemIds(qtys, j) ==
    IF j > Len(qtys) THEN << >>
    ELSE [c \in 1 .. qtys[j] |-> ItemId(j - 1, c - 1)] \o ItemIds(qtys, j + 1)

\* The body of the item loop for item j, up to its first await.
ApiItem(q, j) ==
    IF j > Len(Items(q)) THEN Issue(q, "ptype")
    ELSE IF ~ApiItemOk(Items(q)[j]) THEN Throw(q, "Invalid item", 400)
    ELSE IF isFinite(Number(Items(q)[j].price))
         THEN Issue([q EXCEPT !.i = j, !.c = 0, !.price = Items(q)[j].price.v], "core")
         ELSE Issue([q EXCEPT !.i = j, !.c = 0], "probe_core")

ApiStart(q) ==
    IF Len(Items(q)) = 0 THEN Respond(q, 400, 0, "items required")
    ELSE Issue(q, "begin")

\* c: the connection the completed statement ran on (its rows are the result
\* of a SELECT).  A failing ROLLBACK rejects the handler's promise inside the
\* catch block: no response is sent.
ApiNext(q, ok, c) ==
    IF ~ok
    THEN IF q.pc = "rollback" THEN [q EXCEPT !.pc = "rejected"]
         ELSE Throw(q, "sql error", 400)
    ELSE CASE q.pc = "begin"   -> Issue(q, "header")
           [] q.pc = "header"  -> Issue(q, "ts")
           [] q.pc = "ts"      -> ApiItem([q EXCEPT !.total = 0], 1)
           [] q.pc = "probe_core" ->
                Issue([q EXCEPT !.src = IF tableExists("order_items_core")
                                        THEN "core" ELSE ""], "probe_pricing")
           [] q.pc = "probe_pricing" ->
                IF q.src = "core" /\ tableExists("order_item_pricing")
                THEN Issue([q EXCEPT !.src = "normalized"], "avg")
                ELSE Issue(q, "probe_orders")
           [] q.pc = "probe_orders" ->
                IF tableExists("orders")
                THEN Issue([q EXCEPT !.src = "staging"], "avg")
                ELSE Issue([q EXCEPT !.src = "none", !.price = 0], "core")
           [] q.pc = "avg" ->
                Issue([q EXCEPT !.price =
                          IF q.src = "normalized"
                          THEN AvgPrice(JoinedPricing(c, Items(q)[q.i].id))
                          ELSE AvgPrice(StagingRows(c, Items(q)[q.i].id))],
                      "core")
           [] q.pc = "core"    -> Issue(q, "pricing")
           [] q.pc = "pricing" ->
                IF q.c + 1 < ApiQty(Items(q)[q.i]).v
                THEN Issue([q EXCEPT !.c = @ + 1, !.total = @ + q.price], "core")
                ELSE ApiItem([q EXCEPT !.total = @ + q.price], q.i + 1)
           [] q.pc = "ptype"   -> Issue(q, "pmethod")
           [] q.pc = "pmethod" -> Issue(q, "pamount")
           [] q.pc = "pamount" -> Issue(q, "commit")
           [] q.pc = "commit"  -> Respond(q, 201, q.total, "")
           [] q.pc = "rollback" -> Respond(q, 400, 0, q.err)

\* customerId = (req.body?.customer_id && String(req.body.customer_id))
\*              || "guest0000000000000000000000000000"   (33 characters)
ApiCustomerLen(q) == IF q.cust = "undef" THEN 33 ELSE 32

ApiStmt(r, q) ==
    CASE q.pc = "begin"    -> Stmt("begin", "", r, 0, << >>, 0, 0)
      [] q.pc = "header"   -> Stmt("insert", "orders_header", r, 0, << >>, 0, ApiCustomerLen(q))
      [] q.pc = "ts"       -> Stmt("insert", "orders_timestamps", r, 0, << >>, 0, 32)
      [] q.pc \in {"probe_core", "probe_pricing", "probe_orders"}
                           -> Stmt("probe", "", r, 0, << >>, 0, 0)
      [] q.pc = "avg"      -> Stmt("select",
                                   IF q.src = "normalized" THEN "order_items_core" ELSE "orders",
                                   r, 0, << >>, 0, 0)
      [] q.pc = "core"     -> Stmt("insert", "order_items_core", r, ApiItemId(q),
                                   Items(q)[q.i].id, 0, 32)
      [] q.pc = "pricing"  -> Pricing(r, ApiItemId(q), q.price, 0)
      [] q.pc = "ptype"    -> Stmt("upsert", "payment_type_dim", 0, 0, << >>, 0, 6)
      [] q.pc = "pmethod"  -> Stmt("insert", "order_payment_method", r, 1, << >>, 0, 32)
      [] q.pc = "pamount"  -> Stmt("insert", "order_payment_amount", r, 1, << >>, q.total, 32)
      [] q.pc = "commit"   -> Stmt("commit", "", r, 0, << >>, 0, 0)
      [] q.pc = "rollback" -> Stmt("rollback", "", r, 0, << >>, 0, 0)

\* ------------------------------ createOrder of the modular API ("modular")
\* The tables createOrder writes (orders_core, and order_items_core with a
\* quantity column) are defined nowhere in the repository: its statements are
\* held to no key of schema.sql, they fail on a value the column type
\* rejects or by an error of the database (hit).

\* qty = Number(it.qty || 0)
SvcQty(it) == IF it.quantity.k = "undef" THEN Num(0) ELSE it.quantity

\* if (!pid || !Number.isFinite(qty) || qty <= 0) throw
SvcItemOk(it) == Trim(it.id) # << >> /\ isFinite(SvcQty(it)) /\ SvcQty(it).v > 0

SvcItem(q, j) ==
    IF j > Len(Items(q)) THEN Issue(q, "commit")
    ELSE IF ~SvcItemOk(Items(q)[j]) THEN Throw(q, "Invalid item at index", 400)
    ELSE Issue([q EXCEPT !.i = j], "core")

\* if (!Array.isArray(items) || items.length === 0) throw (statusCode 400);
\* the route hands the error to errorHandler.  Otherwise pool.connect() and
\* BEGIN on the client it yields.
SvcStart(q) ==
    IF q.body.items.k = "scalar" \/ Len(Items(q)) = 0
    THEN Respond(q, 400, 0, "At least one item is required")
    ELSE Issue(q, "begin")

\* src: "given" when the item carries a price, "avg" when the price was read
\* from the history, "null" when the history holds none.
SvcNext(q, ok, c) ==
    IF ~ok
    THEN IF q.pc = "rollback" THEN Respond(q, 500, 0, "sql error")
         ELSE Throw(q, "sql error", 500)
    ELSE CASE q.pc = "begin"   -> Issue(q, "header")
           [] q.pc = "header"  -> SvcItem(q, 1)
           [] q.pc = "core"    ->
                IF Items(q)[q.i].price.k = "undef" THEN Issue(q, "avg")
                ELSE Issue([q EXCEPT !.price = Items(q)[q.i].price.v,
                                     !.src = IF isFinite(Items(q)[q.i].price)
                                             THEN "given" ELSE "text"], "pricing")
           [] q.pc = "avg"     ->
                LET S == JoinedPricing(c, Trim(Items(q)[q.i].id))
                IN  Issue([q EXCEPT !.price = AvgPrice(S),
                                    !.src = IF S = {} THEN "null" ELSE "avg"], "pricing")
           [] q.pc = "pricing" -> SvcItem(q, q.i + 1)
           [] q.pc = "commit"  -> Respond(q, 201, 0, "")
           [] q.pc = "rollback" -> Respond(q, q.ecode, 0, q.err)

SvcStmt(r, q) ==
    CASE q.pc = "begin"    -> Stmt("begin", "", r, 0, << >>, 0, 0)
      [] q.pc = "header"   -> Stmt("insert", "orders_core", r, 0, << >>, 0, 0)
      [] q.pc = "core"     -> Stmt("insert", "order_items_core", r, q.i,
                                   Trim(Items(q)[q.i].id), 0, 0)
      [] q.pc = "avg"      -> Stmt("select", "order_item_pricing", r, 0, << >>, 0, 0)
      [] q.pc = "pricing"  -> [Pricing(r, q.i, q.price, 0)
                                 EXCEPT !.bad = q.src \in {"null", "text"}]
      [] q.pc = "commit"   -> Stmt("commit", "", r, 0, << >>, 0, 0)
      [] q.pc = "rollback" -> Stmt("rollback", "", r, 0, << >>, 0, 0)

\* ------------------------------- checkout of the document service ("mongo")
\* qty = Math.max(1, parseInt(item?.quantity, 10) || 1)
MongoQty(it) == Max1(OrOne(parseInt(it.quantity))).v

\* price = item?.price != null ? Number(item.price) : 0
MongoPrice(it) == IF it.price.k # "undef" THEN Number(it.price) ELSE Num(0)

\* if (!productIdRaw) continue; if (!Number.isFinite(price)) continue;
MongoItemOk(it) == Trim(it.id) # << >> /\ isFinite(MongoPrice(it))

\* The documents pushed for the items k .. Len(list), the first one numbered n.
RECURSIVE MongoDocs(_, _, _, _)
MongoDocs(oid, list, k, n) ==
    IF k > Len(list) THEN {}
    ELSE IF ~MongoItemOk(list[k]) THEN MongoDocs(oid, list, k + 1, n)
    ELSE { [oid |-> oid, n |-> n + u, pid |-> Trim(list[k].id),
            price |-> MongoPrice(list[k]).v, freight |-> DEFAULT_FREIGHT_PER_ITEM,
            rid |-> 0, date |-> 0, msg |-> "missing"]
              : u \in 0 .. MongoQty(list[k]) - 1 }
         \cup MongoDocs(oid, list, k + 1, n + MongoQty(list[k]))

RECURSIVE MongoTotal(_, _)
MongoTotal(list, k) ==
    IF k > Len(list) THEN 0
    ELSE (IF MongoItemOk(list[k])
          THEN MongoQty(list[k]) * (MongoPrice(list[k]).v + DEFAULT_FREIGHT_PER_ITEM)
          ELSE 0) + MongoTotal(list, k + 1)

\* The handler up to insertMany: both 400 answers are sent before any
\* database call.
MongoStart(r, q) ==
    IF Len(Items(q)) = 0 THEN Respond(q, 400, 0, "items required")
    ELSE IF MongoDocs(r, Items(q), 1, 1) = {}
         THEN Respond(q, 400, 0, "No valid items to insert for this order")
         ELSE Issue([q EXCEPT !.total = MongoTotal(Items(q), 1)], "insertMany")

MongoNext(q, ok) ==
    IF ok THEN Respond(q, 201, q.total, "") ELSE Respond(q, 400, 0, "mongo error")

\* ------------------------- POST /api/products of the SQL service ("sql")
\* rawPid = (product_id && String(product_id).trim())
\*          || (sku && String(sku).trim()) || ""
RawPid(body) == IF Trim(body.product_id) # << >> THEN Trim(body.product_id) ELSE Trim(body.sku)

\* qty = Math.max(1, parseInt(quantity ?? 1, 10) || 1)
AdminQty(body) ==
    Max1(OrOne(parseInt(IF body.quantity.k = "undef" THEN Num(1) ELSE body.quantity))).v

\* unitPrice = price != null ? Number(price) : 0
AdminPrice(body) == IF body.price.k # "undef" THEN Number(body.price) ELSE Num(0)

\* The handler up to its first await: the two 400 answers, then the first
\* tableExists, which is awaited before the try block.
AdminStart(q) ==
    IF RawPid(q.body) = << >> THEN Respond(q, 400, 0, "product_id required (or sku)")
    ELSE IF ~isFinite(AdminPrice(q.body)) \/ AdminPrice(q.body).v < 0
    THEN Respond(q, 400, 0, "price must be a non-negative number")
    ELSE Issue(q, "probe_core")

\* A failing tableExists rejects the handler's promise outside any try: no
\* response is sent.  Both probes are made before their results are tested.
\* Inside the try an error goes to the catch block, which swallows a failing
\* ROLLBACK and answers 400.
AdminNext(q, ok) ==
    IF ~ok
    THEN IF q.pc \in {"probe_core", "probe_pricing"}
         THEN [q EXCEPT !.pc = "rejected", !.at = q.pc, !.thrown = "sql error"]
         ELSE IF q.pc = "rollback" THEN Respond(q, 400, 0, q.err)
         ELSE Throw(q, "sql error", 400)
    ELSE CASE q.pc = "probe_core" ->
                Issue([q EXCEPT !.src = IF tableExists("order_items_core")
                                        THEN "core" ELSE ""], "probe_pricing")
           [] q.pc = "probe_pricing" ->
                IF q.src = "core" /\ tableExists("order_item_pricing")
                THEN Issue([q EXCEPT !.src = "normalized"], "begin")
                ELSE Respond(q, 400, 0, "Normalized tables not found")
           [] q.pc = "begin"   -> Issue(q, "header")
           [] q.pc = "header"  -> Issue(q, "ts")
           [] q.pc = "ts"      -> Issue([q EXCEPT !.n = 1, !.c = 0, !.total = 0], "core")
           [] q.pc = "core"    -> Issue(q, "pricing")
           [] q.pc = "pricing" ->
                LET t == q.total + AdminPrice(q.body).v + DEFAULT_FREIGHT_PER_ITEM
                IN  IF q.c + 1 < AdminQty(q.body)
                    THEN Issue([q EXCEPT !.c = @ + 1, !.n = @ + 1, !.total = t], "core")
                    ELSE Issue([q EXCEPT !.total = t], "ptype")
           [] q.pc = "ptype"   -> Issue(q, "pmethod")
           [] q.pc = "pmethod" -> Issue(q, "pamount")
           [] q.pc = "pamount" -> Issue(q, "commit")
           [] q.pc = "commit"  -> Respond(q, 201, q.total, "")
           [] q.pc = "rollback" -> Respond(q, 400, 0, q.err)

\* orderId = crypto.randomBytes(16).toString("hex"): the request's number;
\* customerId, sellerId and productId are cut to 32 characters.
AdminStmt(r, q) ==
    CASE q.pc \in {"probe_core", "probe_pricing"}
                           -> Stmt("probe", "", r, 0, << >>, 0, 0)
      [] q.pc = "begin"    -> Stmt("begin", "", r, 0, << >>, 0, 0)
      [] q.pc = "header"   -> Stmt("insert", "orders_header", r, 0, << >>, 0, 32)
      [] q.pc = "ts"       -> Stmt("insert", "orders_timestamps", r, 0, << >>, 0, 32)
      [] q.pc = "core"     -> Stmt("insert", "order_items_core", r, q.n, RawPid(q.body), 0, 32)
      [] q.pc = "pricing"  -> Pricing(r, q.n, AdminPrice(q.body).v, DEFAULT_FREIGHT_PER_ITEM)
      [] q.pc = "ptype"    -> Stmt("upsert", "payment_type_dim", 0, 0, << >>, 0, 6)
      [] q.pc = "pmethod"  -> Stmt("insert", "order_payment_method", r, 1, << >>, 0, 32)
      [] q.pc = "pamount"  -> Stmt("insert", "order_payment_amount", r, 1, << >>, q.total, 32)
      [] q.pc = "commit"   -> Stmt("commit", "", r, 0, << >>, 0, 0)
      [] q.pc = "rollback" -> Stmt("rollback", "", r, 0, << >>, 0, 0)

\* ----------------------------------------------------- the connection pool
\* new pg.Pool({ connectionString, ssl }): clients are opened on demand up to
\* the pool's size; pool.query() takes a client for one statement and
\* releases it when the statement has completed.
Pool == [live |-> live, idle |-> idle, pending |-> pending, conn |-> conn]

\* pool.connect() for request r: the idle client released last; else a new
\* client while the pool is not full; else r queues for the next release.
Acquire(P, r) ==
    IF P.idle # << >>
    THEN [P EXCEPT !.idle = SubSeq(@, 1, Len(@) - 1), !.conn[r] = P.idle[Len(P.idle)]]
    ELSE IF Cardinality(P.live) < poolSize
         THEN LET c == Min(Conns \ P.live)
              IN  [P EXCEPT !.live = @ \cup {c}, !.conn[r] = c]
         ELSE [P EXCEPT !.pending = Append(@, r), !.conn[r] = 0]

\* client.release(err) of the client request r holds: with an error the
\* client is destroyed, and the first waiting request gets a new one;
\* otherwise the first waiting request gets this client, and with nobody
\* waiting it goes on top of the idle stack.
Release(P, r, destroy) ==
    LET c  == P.conn[r]
        P0 == [P EXCEPT !.conn[r] = 0]
    IN  IF destroy
        THEN LET P1 == [P0 EXCEPT !.live = @ \ {c}]
             IN  IF P1.pending # << >>
                 THEN Acquire([P1 EXCEPT !.pending = Tail(@)], Head(P1.pending))
                 ELSE P1
        ELSE IF P0.pending # << >>
             THEN [P0 EXCEPT !.pending = Tail(@), !.conn[Head(P0.pending)] = c]
             ELSE [P0 EXCEPT !.idle = Append(@, c)]

\* ----------------------------------------------------------------- steps
HandlerStart(r, q) ==
    CASE q.route = "products" -> AdminStart(q)
      [] server = "sql"     -> SqlStart(q)
      [] server = "api"     -> ApiStart(q)
      [] server = "modular" -> SvcStart(q)
      [] server = "mongo"   -> MongoStart(r, q)

HandlerNext(q, ok, c) ==
    CASE q.route = "products" -> AdminNext(q, ok)
      [] server = "sql"     -> SqlNext(q, ok)
      [] server = "api"     -> ApiNext(q, ok, c)
      [] server = "modular" -> SvcNext(q, ok, c)

StmtOf(r, q) ==
    CASE q.route = "products" -> AdminStmt(r, q)
      [] server = "sql"     -> SqlStmt(r, q)
      [] server = "api"     -> ApiStmt(r, q)
      [] server = "modular" -> SvcStmt(r, q)

Answered(q) == q.pc \in {"responded", "rejected"}
InFlight(q) == q.pc \notin {"new", "responded", "rejected", "retired"}

\* (variant for C21: release() as the last statement of try and of catch, so
\* that a failing ROLLBACK skips it)
SvcFinallyAfterRollback(q1, ok) == Answered(q1) /\ ok

\* finally { client.release() } of createOrder: it runs when the function
\* returns or throws, whatever the last statement did.
SvcFinally(q1, ok) == Answered(q1)

\* POST /api/orders arrives: the handler runs up to its first await.  With
\* overlap = FALSE a request arrives only when no other one is being served.
Arrive(r, body, cust, overlap) ==
    /\ req[r].pc = "new"
    /\ r <= (IF overlap THEN MaxReq ELSE SerialReqs)
    /\ \A r2 \in Reqs : r2 < r => req[r2].pc # "new"
    /\ overlap \/ \A r2 \in Reqs \ {r} : req[r2].pc \in {"new", "retired"}
    /\ LET q1 == HandlerStart(r, [NewReq EXCEPT !.body = body, !.cust = cust,
                                                !.before = Committed,
                                                !.beforeDocs = docs])
           P1 == IF Answered(q1) \/ server = "mongo" THEN Pool ELSE Acquire(Pool, r)
       IN  /\ req' = [req EXCEPT ![r] = q1]
           /\ live' = P1.live /\ idle' = P1.idle
           /\ pending' = P1.pending /\ conn' = P1.conn
    /\ UNCHANGED << products, server, env, tables, rows, tx, poolSize, docs, res >>

\* POST /api/products arrives at the SQL service: the handler runs up to its
\* first await.
CreateProduct(r, body) ==
    /\ server = "sql"
    /\ req[r].pc = "new"
    /\ \A r2 \in Reqs : r2 < r => req[r2].pc # "new"
    /\ \A r2 \in Reqs \ {r} : req[r2].pc \in {"new", "retired"}
    /\ LET q1 == HandlerStart(r, [NewReq EXCEPT !.route = "products", !.body = body,
                                                !.before = Committed,
                                                !.beforeDocs = docs])
           P1 == IF Answered(q1) THEN Pool ELSE Acquire(Pool, r)
       IN  /\ req' = [req EXCEPT ![r] = q1]
           /\ live' = P1.live /\ idle' = P1.idle
           /\ pending' = P1.pending /\ conn' = P1.conn
    /\ UNCHANGED << products, server, env, tables, rows, tx, poolSize, docs, res >>

\* The statement request r awaits completes, with success or with an error,
\* and the handler runs on to its next await or to its response.
\* pool.query() releases the client after every statement, with the error
\* when the statement failed; createOrder keeps its client until `finally`.
\* A client released with an error is destroyed, and the server ends the
\* transaction of a connection that closes.  ROLLBACK fails only when the
\* connection itself is lost.
Complete(r, hit) ==
    /\ server # "mongo"
    /\ InFlight(req[r])
    /\ conn[r] # 0
    /\ LET q      == req[r]
           c      == conn[r]
           s      == StmtOf(r, q)
           ok     == StmtOk(c, s, hit)
           pooled == server # "modular"
           lost   == ~ok /\ (pooled \/ s.op = "rollback")
           q1     == HandlerNext(q, ok, c)
           final  == ~pooled /\ SvcFinally(q1, ok)
           P1     == IF pooled \/ final THEN Release(Pool, r, lost) ELSE Pool
           P2     == IF pooled /\ ~Answered(q1) THEN Acquire(P1, r) ELSE P1
       IN  /\ Ready(c, s)
           /\ rows' = IF lost THEN { x \in rows : x.by # c } ELSE RowsAfter(c, s, ok)
           /\ tx' = [tx EXCEPT ![c] = IF lost THEN "none" ELSE TxAfter(c, s, ok)]
           /\ req' = [req EXCEPT ![r] = IF final THEN [q1 EXCEPT !.rel = @ + 1] ELSE q1]
           /\ live' = P2.live /\ idle' = P2.idle
           /\ pending' = P2.pending /\ conn' = P2.conn
    /\ UNCHANGED << products, server, env, tables, poolSize, docs, res >>

\* insertMany(docs) completes.  It is an ordered insert: when it fails, the
\* documents before the failing one stay in the collection.
CompleteMongo(r, hit, m) ==
    /\ server = "mongo"
    /\ req[r].pc = "insertMany"
    /\ LET D == MongoDocs(r, Items(req[r]), 1, 1)
       IN  /\ m < Cardinality(D)
           /\ hit \/ m = 0
           /\ docs' = docs \cup (IF hit THEN { d \in D : d.n <= m } ELSE D)
    /\ req' = [req EXCEPT ![r] = MongoNext(req[r], ~hit)]
    /\ UNCHANGED << products, server, env, tables, rows, tx, poolSize, live, idle, pending, conn, res >>

\* ------------------- POST /api/products of the document service ("mongo")
\* the documents pushed for the admin order: one per unit, numbered from 1
MongoAdminDocs(oid, body) ==
    { [oid |-> oid, n |-> u, pid |-> body.product_id,
       price |-> AdminPrice(body).v, freight |-> DEFAULT_FREIGHT_PER_ITEM,
       rid |-> 0, date |-> 0, msg |-> "missing"] : u \in 1 .. AdminQty(body) }

\* The handler up to insertMany: the two 400 answers are sent before any
\* database call.  product_id is tested as it is, without trim().
MongoAdminStart(q) ==
    IF q.body.product_id = << >> THEN Respond(q, 400, 0, "product_id required")
    ELSE IF ~isFinite(AdminPrice(q.body)) \/ AdminPrice(q.body).v < 0
         THEN Respond(q, 400, 0, "price must be a non-negative number")
         ELSE Issue([q EXCEPT !.total = AdminQty(q.body)
                                  * (AdminPrice(q.body).v + DEFAULT_FREIGHT_PER_ITEM)],
                    "adminInsert")

\* collection("products").updateOne({ product_id }, { $setOnInsert, $set:
\* { title, price }, $inc: { order_count: qty } }, { upsert: true })
UpdateOne(P, body) ==
    IF \E d \in P : d.pid = body.product_id
    THEN { IF d.pid = body.product_id
           THEN [d EXCEPT !.price = AdminPrice(body).v, !.order_count = @ + AdminQty(body)]
           ELSE d : d \in P }
    ELSE P \cup { [pid |-> body.product_id, price |-> AdminPrice(body).v,
                   order_count |-> AdminQty(body)] }

\* POST /api/products arrives at the document service
MongoCreateProduct(r, body) ==
    /\ server = "mongo"
    /\ req[r].pc = "new"
    /\ \A r2 \in Reqs : r2 < r => req[r2].pc # "new"
    /\ \A r2 \in Reqs \ {r} : req[r2].pc \in {"new", "retired"}
    /\ req' = [req EXCEPT ![r] =
                 MongoAdminStart([NewReq EXCEPT !.route = "products", !.body = body,
                                                !.before = Committed,
                                                !.beforeDocs = docs])]
    /\ UNCHANGED << products, server, env, tables, rows, tx, poolSize, live, idle, pending, conn, docs, res >>

\* The database call the admin handler awaits completes: insertMany (an
\* ordered insert that keeps the m documents before a failing one), then
\* updateOne.  An error of either goes to the catch block, which answers 400.
CompleteMongoCreate(r, hit, m) ==
    /\ server = "mongo"
    /\ req[r].pc \in {"adminInsert", "adminUpdate"}
    /\ LET q == req[r]
           D == MongoAdminDocs(r, q.body)
       IN  IF q.pc = "adminInsert"
           THEN /\ m < Cardinality(D)
                /\ hit \/ m = 0
                /\ docs' = docs \cup (IF hit THEN { d \in D : d.n <= m } ELSE D)
                /\ products' = products
                /\ req' = [req EXCEPT ![r] =
                             IF hit THEN Respond(q, 400, 0, "mongo error")
                             ELSE Issue(q, "adminUpdate")]
           ELSE /\ m = 0
                /\ docs' = docs
                /\ products' = IF hit THEN products ELSE UpdateOne(products, q.body)
                /\ req' = [req EXCEPT ![r] =
                             IF hit THEN Respond(q, 400, 0, "mongo error")
                             ELSE Respond(q, 201, q.total, "")]
    /\ UNCHANGED << server, env, tables, rows, tx, poolSize, live, idle, pending, conn, res >>

\* The response has been delivered; the handler instance is gone.
Retire(r) ==
    /\ Answered(req[r])
    /\ req' = [req EXCEPT ![r] = Retired]
    /\ UNCHANGED << products, server, env, tables, rows, tx, poolSize, live, idle, pending, conn, docs, res >>

\* ------------------------------------------------------- product queries
MaxSearchLen == 2   \* characters of a search string

\* The characters of the product ids and search strings: a letter in both
\* cases, a second letter, the wildcards and the escape of LIKE, white space.
Chars == {"a", "A", "b", "_", "%", "\\", " "}
Strings == UNION { [1 .. n -> Chars] : n \in 0 .. MaxSearchLen }

\* lower case of a character / of a string
Lower(ch) ==
    CASE ch = "A" -> "a" [] ch = "T" -> "t" [] ch = "R" -> "r"
      [] ch = "U" -> "u" [] ch = "E" -> "e" [] OTHER -> ch
LowerStr(str) == [k \in 1 .. Len(str) |-> Lower(str[k])]

\* str LIKE pat: % matches any run of characters, _ any one character, and
\* the character after a backslash matches itself.
RECURSIVE Like(_, _)
Like(str, pat) ==
    IF pat = << >> THEN str = << >>
    ELSE IF Head(pat) = "%"
         THEN Like(str, Tail(pat)) \/ (str # << >> /\ Like(Tail(str), pat))
    ELSE IF str = << >> THEN FALSE
    ELSE IF Head(pat) = "_" THEN Like(Tail(str), Tail(pat))
    ELSE IF Head(pat) = "\\" /\ Len(pat) > 1
         THEN Head(str) = pat[2] /\ Like(Tail(str), Tail(Tail(pat)))
    ELSE Head(str) = Head(pat) /\ Like(Tail(str), Tail(pat))

\* str ILIKE pat
ILike(str, pat) == Like(LowerStr(str), LowerStr(pat))

\* WHERE ($1 = '' OR product_id ILIKE '%' || $1 || '%')
SearchHit(pid, q) == q = << >> \/ ILike(pid, <<"%">> \o q \o <<"%">>)

\* The rows one group of the catalog query aggregates: the priced line
\* items of product pid (of orders with a timestamps row when withTs), or
\* its rows of the staging table.
GroupRows(src, pid, withTs) ==
    IF src = "normalized"
    THEN { x \in JoinedPricing(0, pid) :
             withTs => HasRow(0, "orders_timestamps", x.oid, 0) }
    ELSE StagingRows(0, pid)

Max(S) == CHOOSE x \in S : \A y \in S : x >= y

\* SELECT product_id AS id, ROUND(AVG(price), 2) AS price, COUNT(*) AS
\* order_count [, MAX(order_purchase_timestamp) AS last_order_ts] ... GROUP BY
\* product_id.  Orders are numbered in the order of their purchase.
Group(src, pid, withTs) ==
    LET S == GroupRows(src, pid, withTs)
    IN  [id |-> pid, price |-> AvgPrice(S), order_count |-> Cardinality(S),
         last_order_ts |-> Max({ x.oid : x \in S })]

Groups(src, withTs) ==
    { Group(src, pid, withTs) :
        pid \in { x.pid : x \in { y \in Committed :
                     /\ y.tab = (IF src = "normalized" THEN "order_items_core" ELSE "orders")
                     /\ GroupRows(src, y.pid, withTs) # {} } } }

\* toUiProduct(row)
toUiProduct(row) == [id |-> row.id, price |-> row.price, order_count |-> row.order_count]

\* The orders ORDER BY key DESC may return the groups S in (rows with equal
\* keys come in any order).
SortKey(g, key) == IF key = "order_count" THEN g.order_count ELSE g.last_order_ts

Sorted(S, key) ==
    { f \in [1 .. Cardinality(S) -> S] :
        /\ \A i, j \in DOMAIN f : i # j => f[i] # f[j]
        /\ \A i, j \in DOMAIN f : i < j => SortKey(f[i], key) >= SortKey(f[j], key) }

\* LIMIT limit OFFSET offset
Window(seq, limit, offset) ==
    SubSeq(seq, offset + 1, IF offset + limit < Len(seq) THEN offset + limit ELSE Len(seq))

\* the environment of a process started without ALLOW_SQL
NoEnv == [set |-> FALSE, val |-> << >>]

\* What is remembered of the resolver's last completed call: the variant it
\* returned and the tables that existed then.
NoPick == [called |-> FALSE, src |-> "", tables |-> {}]

\* the query string of a request without limit, skip and offset
NoQuery == [limit |-> Undef, skip |-> Undef, offset |-> Undef]

\* res: the request (op, arg, limit, offset, query, fail), the answer (status, error,
\* body, hasMore), what the handler did (src: the variant the resolver
\* returned to it, stmts: the statements it issued, invoked: the driver
\* method it called), and the stores when the request arrived (schema, before,
\* beforeDocs).  failed: a statement of the handler was made to fail.
NoRes ==
    [op |-> "none", arg |-> << >>, limit |-> 0, offset |-> 0, failed |-> FALSE,
     status |-> 0, error |-> FALSE, body |-> << >>,
     query |-> NoQuery, fail |-> "none", hasMore |-> FALSE, src |-> "", stmts |-> << >>,
     invoked |-> << >>, schema |-> {}, before |-> {}, beforeDocs |-> {},
     last |-> NoPick]

\* res.json(body) / res.status(status).json({ error })
Json(body) == [status |-> 200, error |-> FALSE, body |-> body]
JsonError(status) == [status |-> status, error |-> TRUE, body |-> << >>]

\* a statement of a handler that is not a checkout: its kind and its subject
Sql(op, arg) == [op |-> op, arg |-> arg]

\* An answer with what the handler did before it: the variant it got from
\* the resolver and the statements it issued.
Ran(a, src, stmts) ==
    [status |-> a.status, error |-> a.error, body |-> a.body, hasMore |-> FALSE,
     src |-> src, stmts |-> stmts, invoked |-> << >>]

\* Which statement of a handler is made to fail: none, one of the resolver's
\* probes, or the handler's own query.
FailKinds == {"none", "probe", "query"}

\* The probes of pickProductSource (monolithic servers): both normalized
\* tables, then the staging table unless both exist.
Probes ==
    << Sql("to_regclass", "order_items_core"), Sql("to_regclass", "order_item_pricing") >>
    \o (IF tableExists("order_items_core") /\ tableExists("order_item_pricing")
        THEN << >> ELSE << Sql("to_regclass", "orders") >>)

\* (variant for C29: both normalized tables are probed before && is applied)
SvcProbesNoShortCircuit ==
    << Sql("to_regclass", "order_items_core") >>
    \o << Sql("to_regclass", "order_item_pricing") >>
    \o (IF tableExists("order_items_core") /\ tableExists("order_item_pricing")
        THEN << >> ELSE << Sql("to_regclass", "orders") >>)

\* The probes of pickProductSource of the modular API: && does not probe the
\* second table when the first is missing.
SvcProbes ==
    << Sql("to_regclass", "order_items_core") >>
    \o (IF tableExists("order_items_core")
        THEN << Sql("to_regclass", "order_item_pricing") >> ELSE << >>)
    \o (IF tableExists("order_items_core") /\ tableExists("order_item_pricing")
        THEN << >> ELSE << Sql("to_regclass", "orders") >>)

\* (variant for C13: the staging table is not probed)
SvcPickProductSourceNoStaging ==
    IF tableExists("order_items_core") /\ tableExists("order_item_pricing")
    THEN "normalized"
    ELSE "none"

\* pickProductSource of the modular API: the second table is probed only
\* when the first exists, the staging table only when one of them is missing.
SvcPickProductSource ==
    IF tableExists("order_items_core") /\ tableExists("order_item_pricing")
    THEN "normalized"
    ELSE IF tableExists("orders") THEN "staging" ELSE "none"

\* One of the probes P fails: the handler has issued the probes up to it
\* and answers with `status` (the catch block, or errorHandler).
ProbeFailure(P, status) ==
    { Ran(JsonError(status), "", SubSeq(P, 1, k)) : k \in 1 .. Len(P) }

\* GET /api/products of the SQL service.  Its normalized query also joins
\* orders_timestamps.
SqlListProducts(search, limit, offset, fail) ==
    LET src == pickProductSource
        q   == Trim(search)
        S   == { g \in Groups(src, TRUE) : SearchHit(g.id, q) }
        Q   == Probes \o << Sql("aggregate", src) >>
    IN  IF fail = "probe" THEN ProbeFailure(Probes, 500)
        ELSE IF src = "none" THEN { Ran(Json(<< >>), src, Probes) }
        ELSE IF fail = "query" \/ (src = "normalized" /\ ~tableExists("orders_timestamps"))
             THEN { Ran(JsonError(500), src, Q) }
        ELSE { Ran(Json([k \in DOMAIN Window(f, limit, offset) |->
                           toUiProduct(Window(f, limit, offset)[k])]), src, Q)
                 : f \in Sorted(S, "last_order_ts") }

\* GET /api/products of api/server.js
ApiListProducts(search, limit, offset, fail) ==
    LET src == pickProductSource
        q   == Trim(search)
        S   == { g \in Groups(src, FALSE) : SearchHit(g.id, q) }
        Q   == Probes \o << Sql("aggregate", src) >>
    IN  IF fail = "probe" THEN ProbeFailure(Probes, 500)
        ELSE IF src = "none" THEN { Ran(Json(<< >>), src, Probes) }
        ELSE IF fail = "query" THEN { Ran(JsonError(500), src, Q) }
        ELSE { Ran(Json([k \in DOMAIN Window(f, limit, offset) |->
                           toUiProduct(Window(f, limit, offset)[k])]), src, Q)
                 : f \in Sorted(S, "order_count") }

\* getProducts(search, limit, offset, src) of products.service: the rows
\* the query may return
getProducts(search, limit, offset, src) ==
    LET q == Trim(search)
        S == { g \in Groups(src, FALSE) : SearchHit(g.id, q) }
    IN  IF src \in {"normalized", "staging"}
        THEN { Window(f, limit, offset) : f \in Sorted(S, "order_count") }
        ELSE { << >> }

\* r.get("/") of products.routes; an exception goes to errorHandler
SvcListProducts(search, limit, offset, fail) ==
    LET src == SvcPickProductSource
        Q   == SvcProbes \o << Sql("aggregate", src) >>
    IN  IF fail = "probe" THEN ProbeFailure(SvcProbes, 500)
        ELSE IF src = "none" THEN { Ran(Json(<< >>), src, SvcProbes) }
        ELSE IF fail = "query" THEN { Ran(JsonError(500), src, Q) }
        ELSE { Ran(Json([k \in DOMAIN found |-> toUiProduct(found[k])]), src, Q) :
                 found \in getProducts(search, limit, offset, src) }

\* GET /api/products/:id of the SQL service:
\* if (!rows.length) return res.status(404).json({ error: "Not found" })
SqlProductDetail(id, fail) ==
    LET src == pickProductSource
        Q   == Probes \o << Sql("aggregate", src) >>
    IN  IF fail = "probe" THEN ProbeFailure(Probes, 500)
        ELSE IF src = "none" THEN { Ran(JsonError(404), src, Probes) }
        ELSE IF fail = "query" THEN { Ran(JsonError(500), src, Q) }
        ELSE IF GroupRows(src, id, FALSE) = {} THEN { Ran(JsonError(404), src, Q) }
        ELSE { Ran(Json(<< toUiProduct(Group(src, id, FALSE)) >>), src, Q) }

\* (variant for C12: the handler goes on to its query when the source is
\* "none"; the query then names a table that does not exist)
ApiProductDetailNoNone(id, fail) ==
    LET src == pickProductSource
        Q   == Probes \o << Sql("aggregate", src) >>
    IN  IF fail = "probe" THEN ProbeFailure(Probes, 500)
        ELSE IF fail = "query" \/ src = "none" THEN { Ran(JsonError(500), src, Q) }
        ELSE IF GroupRows(src, id, FALSE) = {} THEN { Ran(JsonError(404), src, Q) }
        ELSE { Ran(Json(<< toUiProduct(Group(src, id, FALSE)) >>), src, Q) }

\* GET /api/products/:id of api/server.js
ApiProductDetail(id, fail) ==
    LET src == pickProductSource
        Q   == Probes \o << Sql("aggregate", src) >>
    IN  IF fail = "probe" THEN ProbeFailure(Probes, 500)
        ELSE IF src = "none" THEN { Ran(JsonError(404), src, Probes) }
        ELSE IF fail = "query" THEN { Ran(JsonError(500), src, Q) }
        ELSE IF GroupRows(src, id, FALSE) = {} THEN { Ran(JsonError(404), src, Q) }
        ELSE { Ran(Json(<< toUiProduct(Group(src, id, FALSE)) >>), src, Q) }

\* getProductById(id, src): rows[0] || null; the empty sequence is null
getProductById(id, src) ==
    IF src \in {"normalized", "staging"} /\ GroupRows(src, id, FALSE) # {}
    THEN << Group(src, id, FALSE) >>
    ELSE << >>

\* (variant for C9: the route answers without the test of `row`)
SvcDetailAnswerNoCheck(row) == Json([k \in DOMAIN row |-> toUiProduct(row[k])])

\* if (!row) return res.status(404).json({ error: "Not found" });
\* res.json(toUiProduct(row))
SvcDetailAnswer(row) ==
    IF row = << >> THEN JsonError(404) ELSE Json(<< toUiProduct(row[1]) >>)

\* r.get("/:id") of products.routes
SvcProductDetail(id, fail) ==
    LET src == SvcPickProductSource
        Q   == SvcProbes \o << Sql("aggregate", src) >>
    IN  IF fail = "probe" THEN ProbeFailure(SvcProbes, 500)
        ELSE IF src = "none" THEN { Ran(JsonError(404), src, SvcProbes) }
        ELSE IF fail = "query" THEN { Ran(JsonError(500), src, Q) }
        ELSE { Ran(SvcDetailAnswer(getProductById(id, src)), src, Q) }

DEFAULT_LIMIT == 50
Limits == {1, DEFAULT_LIMIT}
Offsets == {0, 1}

\* The answer a of a handler, recorded with its request.
Answer(op, arg, limit, offset, fail, a) ==
    [NoRes EXCEPT !.op = op, !.arg = arg, !.limit = limit, !.offset = offset,
                  !.fail = fail, !.failed = (fail # "none"),
                  !.status = a.status, !.error = a.error, !.body = a.body,
                  !.hasMore = a.hasMore, !.src = a.src, !.stmts = a.stmts,
                  !.invoked = a.invoked,
                  !.schema = tables, !.before = Committed, !.beforeDocs = docs,
                  !.last = res.last]

\* GET /api/products?search=&limit=&offset=
ListProducts(search, limit, offset, fail) ==
    /\ server \in {"sql", "api", "modular"}
    /\ res.op = "none"
    /\ \E a \in (CASE server = "sql" -> SqlListProducts(search, limit, offset, fail)
                   [] server = "api" -> ApiListProducts(search, limit, offset, fail)
                   [] server = "modular" -> SvcListProducts(search, limit, offset, fail)) :
          res' = Answer("list", search, limit, offset, fail, a)
    /\ UNCHANGED << products, server, env, tables, rows, tx, poolSize, live, idle, pending, conn, docs, req >>

\* GET /api/products/:id
ProductDetail(id, fail) ==
    /\ server \in {"sql", "api", "modular"}
    /\ res.op = "none"
    /\ \E a \in (CASE server = "sql" -> SqlProductDetail(id, fail)
                   [] server = "api" -> ApiProductDetail(id, fail)
                   [] server = "modular" -> SvcProductDetail(id, fail)) :
          res' = Answer("detail", id, 0, 0, fail, a)
    /\ UNCHANGED << products, server, env, tables, rows, tx, poolSize, live, idle, pending, conn, docs, req >>

\* ---------------------------------------------------------------- reviews
ReviewTables == { "order_reviews_core", "order_review_text" }

\* parseInt(req.query.x || d, 10): an absent parameter gives the default
QueryInt(x, d) == IF x.k = "undef" THEN Num(d) ELSE parseInt(x)

\* a row of the reviews query: the review, and the line item it was joined to
ReviewRow(rid, oid, date, msg, line) ==
    [review_id |-> rid, order_id |-> oid, creation_date |-> date, message |-> msg,
     line |-> line]

\* FROM order_reviews_core rc JOIN order_review_text rt ON (review_id,
\* order_id) JOIN order_items_core oi ON rc.order_id = oi.order_id
\* WHERE oi.product_id = $1 AND rt.review_comment_message IS NOT NULL;
\* FROM orders WHERE product_id = $1 AND review_comment_message IS NOT NULL
SqlReviewRows(src, productId) ==
    IF src = "normalized"
    THEN { ReviewRow(rc.rid, rc.oid, rc.date, rt.msg, oi.n) :
             << rc, rt, oi >> \in
               { t \in { x \in Committed : x.tab = "order_reviews_core" }
                       \X { x \in Committed : x.tab = "order_review_text" /\ x.msg # NULL }
                       \X { x \in Committed : x.tab = "order_items_core" /\ x.pid = productId } :
                   /\ t[1].rid = t[2].rid /\ t[1].oid = t[2].oid
                   /\ t[1].oid = t[3].oid } }
    ELSE { ReviewRow(x.rid, x.oid, x.date, x.msg, x.n) :
             x \in { y \in Committed : y.tab = "orders" /\ y.pid = productId /\ y.msg # NULL } }

\* { $match: { product_id, review_comment_message: { $ne: null } } }: a
\* document without the field does not match
MongoReviewRows(productId) ==
    { ReviewRow(d.rid, d.oid, d.date, d.msg, d.n) :
        d \in { e \in docs : e.pid = productId /\ e.msg \notin {NULL, "missing"} } }

\* ORDER BY review_creation_date DESC / { $sort: { review_creation_date: -1 } }
RECURSIVE ByDateDesc(_)
ByDateDesc(S) ==
    IF S = {} THEN << >>
    ELSE LET x == CHOOSE y \in S : \A z \in S : y.creation_date >= z.creation_date
         IN  << x >> \o ByDateDesc(S \ {x})

\* rows.map(row => ({ review_id, score, title, message, creation_date }))
toReview(row) ==
    [review_id |-> row.review_id, message |-> row.message,
     creation_date |-> row.creation_date]

\* (variant for C28: hasMore tells whether the page holds any review)
JsonReviewsNonEmpty(found, limit) ==
    [Json([k \in DOMAIN found |-> toReview(found[k])]) EXCEPT !.status = 200]
      @@ [hasMore |-> Len(found) > 0]

\* res.json({ reviews, hasMore: rows.length === limit })
JsonReviews(found, limit) ==
    [Json([k \in DOMAIN found |-> toReview(found[k])]) EXCEPT !.status = 200]
      @@ [hasMore |-> Len(found) = limit]

\* GET /api/reviews/:productId of the SQL service.  It reads `limit` and
\* `offset` of the query string.
SqlReviews(productId, query, fail) ==
    LET src    == pickProductSource
        limit  == QueryInt(query.limit, 10)
        offset == QueryInt(query.offset, 0)
        Q      == Probes \o << Sql("reviews", src) >>
        found  == Window(ByDateDesc(SqlReviewRows(src, productId)), limit.v, offset.v)
    IN  IF fail = "probe" THEN ProbeFailure(Probes, 500)
        ELSE IF src = "none" THEN { Ran(JsonError(404), src, Probes) }
        ELSE IF \/ fail = "query"
                \/ limit.k # "num" \/ offset.k # "num"
                \/ (src = "normalized" /\ ~(ReviewTables \subseteq tables))
             THEN { Ran(JsonError(500), src, Q) }
        ELSE { [Ran(JsonReviews(found, limit.v), src, Q)
                  EXCEPT !.hasMore = JsonReviews(found, limit.v).hasMore] }

\* GET /api/reviews/:productId of the document service.  It reads `limit`
\* and `skip`; $limit takes a positive number only.
MongoReviews(productId, query, fail) ==
    LET limit == QueryInt(query.limit, 10)
        skip  == QueryInt(query.skip, 0)
        Q     == << Sql("aggregate", "orders") >>
        found == Window(ByDateDesc(MongoReviewRows(productId)), limit.v, skip.v)
    IN  IF fail = "query" \/ limit.k # "num" \/ skip.k # "num" \/ limit.v <= 0
        THEN { Ran(JsonError(500), "", Q) }
        ELSE { [Ran(JsonReviews(found, limit.v), "", Q)
                  EXCEPT !.hasMore = JsonReviews(found, limit.v).hasMore] }

\* GET /api/reviews/:productId?limit=&skip=&offset=
GetReviews(productId, query, fail) ==
    /\ server \in {"sql", "mongo"}
    /\ res.op = "none"
    /\ server = "mongo" => fail # "probe"
    /\ \E a \in (IF server = "sql" THEN SqlReviews(productId, query, fail)
                 ELSE MongoReviews(productId, query, fail)) :
          res' = [Answer("reviews", productId, 0, 0, fail, a) EXCEPT !.query = query]
    /\ UNCHANGED << products, server, env, tables, rows, tx, poolSize, live, idle, pending, conn, docs, req >>

\* ---------------------------------------------------------- schema script
\* DROP TABLE IF EXISTS t CASCADE of schema.sql: the table goes with its rows.
DropTable(t) ==
    /\ t \in tables
    /\ tables' = tables \ {t}
    /\ rows' = { x \in rows : x.tab # t }
    /\ UNCHANGED << products, server, env, tx, poolSize, live, idle, pending, conn, docs, req, res >>

\* CREATE TABLE t (...) of schema.sql: the new table is empty.
CreateTable(t) ==
    /\ t \notin tables
    /\ tables' = tables \cup {t}
    /\ UNCHANGED << products, server, env, rows, tx, poolSize, live, idle, pending, conn, docs, req, res >>

\* ------------------------------------------------------------ SQL console
\* a JSON string value
Str(v) == [k |-> "str", s |-> v]

\* export const ALLOW_SQL =
\*     (process.env.ALLOW_SQL || "false").toLowerCase() === "true"
ALLOW_SQL ==
    LowerStr(IF env.set /\ env.val # << >> THEN env.val ELSE <<"f", "a", "l", "s", "e">>)
      = <<"t", "r", "u", "e">>

\* The statements the console is given in the model, and what the database
\* does with each: [ok, rows] (DELETE FROM orders fails without the table).
SqlTexts == { "SELECT 1", "DELETE FROM orders" }

RunSql(text) ==
    IF text = "DELETE FROM orders"
    THEN [ok |-> "orders" \in tables, rows |-> { x \in rows : x.tab # "orders" \/ x.by # 0 }]
    ELSE [ok |-> TRUE, rows |-> rows]

\* an answer with the rows the handler leaves in the database
Outcome(a, after) == [a |-> a, rows |-> after]

\* (variant for C16: the route without the test of ALLOW_SQL)
SvcSqlQueryNoGuard(body, fail) ==
    IF body.sql.k # "str" \/ body.sql.s = ""
    THEN Outcome(Ran(JsonError(400), "", << >>), rows)
    ELSE LET run == RunSql(body.sql.s)
             Q   == << Sql("query", body.sql.s) >>
         IN  IF fail \/ ~run.ok THEN Outcome(Ran(JsonError(500), "", Q), rows)
             ELSE Outcome(Ran(Json(<< >>), "", Q), run.rows)

\* r.post("/query") of sql.routes: 403 unless ALLOW_SQL; 400 unless `sql` is
\* a non-empty string; else pool.query(sql, params), an error going to
\* errorHandler.
SvcSqlQuery(body, fail) ==
    IF ~ALLOW_SQL THEN Outcome(Ran(JsonError(403), "", << >>), rows)
    ELSE IF body.sql.k # "str" \/ body.sql.s = ""
    THEN Outcome(Ran(JsonError(400), "", << >>), rows)
    ELSE LET run == RunSql(body.sql.s)
             Q   == << Sql("query", body.sql.s) >>
         IN  IF fail \/ ~run.ok THEN Outcome(Ran(JsonError(500), "", Q), rows)
             ELSE Outcome(Ran(Json(<< >>), "", Q), run.rows)

\* app.post("/api/postgres/query") of the SQL service and of api/server.js:
\* q = String(req.body?.query || ""); 400 when q.trim() is empty; else
\* pool.query(q), an error answered 400.  No flag guards it.
SqlQueryOpen(body, fail) ==
    LET q == IF body.query.k = "str" THEN body.query.s
             ELSE IF body.query.k = "num" /\ body.query.v # 0 THEN "5" ELSE ""
    IN  IF q = "" THEN Outcome(Ran(JsonError(400), "", << >>), rows)
        ELSE LET run == RunSql(q)
                 Q   == << Sql("query", q) >>
             IN  IF fail \/ ~run.ok \/ q \notin SqlTexts
                 THEN Outcome(Ran(JsonError(400), "", Q), rows)
                 ELSE Outcome(Ran(Json(<< >>), "", Q), run.rows)

\* the values of `sql` / `query` in a body: absent, a number, the empty
\* string, a statement
SqlValues == { Undef, Num(5), Str("") } \cup { Str(t) : t \in SqlTexts }
SqlBodies == [sql : SqlValues, query : SqlValues]

\* POST /api/postgres/query
SqlQuery(body, fail) ==
    /\ server \in {"modular", "sql", "api"}
    /\ res.op = "none"
    /\ LET o == IF server = "modular" THEN SvcSqlQuery(body, fail)
                ELSE SqlQueryOpen(body, fail)
       IN  /\ res' = Answer("sql", body, 0, 0, IF fail THEN "query" ELSE "none", o.a)
           /\ rows' = o.rows
    /\ UNCHANGED << products, server, env, tables, tx, poolSize, live, idle, pending, conn, docs, req >>

\* -------------------------------------------------------- MongoDB console
\* Names used in commands, as strings of characters.
Orders     == <<"o", "r", "d", "e", "r", "s">>
Find       == <<"f", "i", "n", "d">>
DeleteMany == <<"d", "e", "l", "e", "t", "e", "M", "a", "n", "y">>
Nope       == <<"n", "o", "p", "e">>

\* typeof coll[method] === "function": the driver's collection methods the
\* model knows (find reads, deleteMany removes every document)
DriverMethods == { Find, DeleteMany }

\* what an invoked method leaves in the collection `orders`
DriverCall(collection, method) ==
    IF method = DeleteMany /\ collection = Orders THEN {} ELSE docs

\* an answer with the documents the handler leaves and the driver calls made
CmdOutcome(a, called, after) == [a |-> a, invoked |-> called, docs |-> after]

\* can `...args` be spread?  Arrays and strings are iterable; an object, a
\* number or null is not (TypeError before the call).
Spreadable(args) == args \in {"undef", "array", "string"}

\* app.post("/api/mongodb/command") of the document service: body
\* {collection, method, args = []}.  `fail` makes the driver call reject.
MongoCommandJson(body, fail) ==
    IF body.collection.k # "str" \/ body.collection.s = << >>
       \/ body.method.k # "str" \/ body.method.s = << >>
    THEN CmdOutcome(JsonError(400), << >>, docs)
    ELSE IF body.method.s \notin DriverMethods
    THEN CmdOutcome(JsonError(400), << >>, docs)
    ELSE IF ~Spreadable(body.args)
    THEN CmdOutcome(JsonError(400), << >>, docs)
    ELSE LET call == << [collection |-> body.collection.s, method |-> body.method.s] >>
         IN  IF fail \/ body.args = "string"
             THEN CmdOutcome(JsonError(400), call, docs)
             ELSE CmdOutcome(Json(<< >>), call,
                             DriverCall(body.collection.s, body.method.s))

\* /\w/ over the characters commands are made of
IsWord(ch) == ch \notin {".", "(", ")", "{", "}", " "}

\* String.prototype.indexOf, 1-based, 0 when absent
IndexOf(str, ch) ==
    IF \E k \in 1 .. Len(str) : str[k] = ch
    THEN CHOOSE k \in 1 .. Len(str) : str[k] = ch /\ \A m \in 1 .. k - 1 : str[m] # ch
    ELSE 0

\* the last position of the run of word characters that holds position i
RECURSIVE RunEnd(_, _)
RunEnd(str, i) ==
    IF i = Len(str) \/ ~IsWord(str[i + 1]) THEN i ELSE RunEnd(str, i + 1)

\* restOfString.match(/(\w+)\((.*)\)/s): the leftmost run of word characters
\* that "(" follows with a ")" somewhere after it; 0 when there is no match
MatchStart(str) ==
    LET S == { i \in 1 .. Len(str) :
                 /\ IsWord(str[i])
                 /\ LET e == RunEnd(str, i)
                    IN  /\ e < Len(str)
                        /\ str[e + 1] = "("
                        /\ \E k \in e + 2 .. Len(str) : str[k] = ")" }
    IN  IF S = {} THEN 0 ELSE CHOOSE i \in S : \A m \in S : i <= m

\* The parse of executeMongoCommand: commandString.split('.'), parts[0],
\* parts.slice(1).join('.'), match[1].
ParseCommand(str) ==
    LET dot  == IndexOf(str, ".")
        rest == SubSeq(str, dot + 1, Len(str))
        i    == MatchStart(rest)
    IN  IF dot = 0 \/ i = 0 THEN [ok |-> FALSE, collection |-> << >>, method |-> << >>]
        ELSE [ok |-> TRUE, collection |-> SubSeq(str, 1, dot - 1),
              method |-> SubSeq(rest, i, RunEnd(rest, i))]

\* executeMongoCommand and its route in the command API: the answers it can
\* give.  A command that is not a string throws at split; the arguments are
\* always an array.  mongoDb.collection("") throws in drivers that check
\* collection names and returns a collection in those that do not.
MongoCommandString(command, fail) ==
    IF command.k # "str" THEN { CmdOutcome(JsonError(400), << >>, docs) }
    ELSE LET p    == ParseCommand(command.s)
             call == << [collection |-> p.collection, method |-> p.method] >>
             run  == IF p.method \notin DriverMethods
                     THEN CmdOutcome(JsonError(400), << >>, docs)
                     ELSE IF fail \/ p.collection = << >>
                     THEN CmdOutcome(JsonError(400), call, docs)
                     ELSE CmdOutcome(Json(<< >>), call, DriverCall(p.collection, p.method))
         IN  IF ~p.ok THEN { CmdOutcome(JsonError(400), << >>, docs) }
             ELSE IF p.collection = << >>
             THEN { CmdOutcome(JsonError(400), << >>, docs), run }
             ELSE { run }

\* POST /api/mongodb/command
MongoCommand(body, fail) ==
    /\ server \in {"mongo", "cmd"}
    /\ res.op = "none"
    /\ \E o \in IF server = "mongo" THEN { MongoCommandJson(body, fail) }
                ELSE MongoCommandString(body.command, fail) :
         /\ res' = [Answer("command", body, 0, 0, IF fail THEN "query" ELSE "none",
                            Ran(o.a, "", << >>))
                      EXCEPT !.invoked = o.invoked]
         /\ docs' = o.docs
    /\ UNCHANGED << products, server, env, tables, rows, tx, poolSize, live, idle, pending, conn, req >>

\* ------------------------------------------ monthly statistics, no-op create
MonthlyView == "mv_product_monthly_stats"

\* app.get("/api/monthly-stats/:productId") of the SQL service: one SELECT on
\* the materialized view (its rows, a snapshot of the last refresh, are not
\* held in the model); an error is answered 500.
MonthlyStats(id, fail) ==
    /\ server = "sql"
    /\ res.op = "none"
    /\ LET Q == << Sql("select", MonthlyView) >>
       IN  res' = Answer("stats", id, 0, 0, IF fail THEN "query" ELSE "none",
                         IF fail \/ MonthlyView \notin tables
                         THEN Ran(JsonError(500), "", Q)
                         ELSE Ran(Json(<< >>), "", Q))
    /\ UNCHANGED << products, server, env, tables, rows, tx, poolSize, live, idle, pending, conn, docs, req >>

\* price ?? null
Price(body) == IF body.price.k = "undef" THEN NULL ELSE body.price

\* (variant for C19: the handler records the product in the staging table)
SynthesizeProductStored(body) ==
    IF body.sku = << >> THEN Outcome(Ran(JsonError(400), "", << >>), rows)
    ELSE Outcome(Ran([status |-> 201, error |-> FALSE,
                      body |-> << toUiProduct([id |-> body.sku, price |-> Price(body),
                                               order_count |-> 0]) >>],
                     "", << Sql("insert", "orders") >>),
                 rows \cup { Row("orders", 0, 0, body.sku, 0, 0, 0) })

\* app.post("/api/products") of api/server.js and r.post("/") of the modular
\* API: 400 without sku, else 201 with a product made from the body; no
\* statement is issued.
SynthesizeProduct(body) ==
    IF body.sku = << >> THEN Outcome(Ran(JsonError(400), "", << >>), rows)
    ELSE Outcome(Ran([status |-> 201, error |-> FALSE,
                      body |-> << toUiProduct([id |-> body.sku, price |-> Price(body),
                                               order_count |-> 0]) >>],
                     "", << >>),
                 rows)

\* POST /api/products (no-op variant)
CreateProductNoop(body) ==
    /\ server \in {"api", "modular"}
    /\ res.op = "none"
    /\ LET o == SynthesizeProduct(body)
       IN  /\ res' = Answer("create", body, 0, 0, "none", o.a)
           /\ rows' = o.rows
    /\ UNCHANGED << products, server, env, tables, tx, poolSize, live, idle, pending, conn, docs, req >>

\* The item loop of the checkout of api/server.js on its own: the keys
\* (order_id, order_item_id) of one order, for the quantities of its items.
GenerateItemIds(qtys) ==
    /\ server = "api"
    /\ res.op = "none"
    /\ res' = Answer("keys", qtys, 0, 0, "none", Ran(Json(ItemIds(qtys, 1)), "", << >>))
    /\ UNCHANGED << products, server, env, tables, rows, tx, poolSize, live, idle, pending, conn, docs, req >>

\* The answer has been delivered.  (These requests are followed to their
\* answer one at a time.)  A completed call of the resolver is remembered.
Delivered ==
    /\ res.op # "none"
    /\ res' = [NoRes EXCEPT !.last =
                 IF res.src # ""
                 THEN [called |-> TRUE, src |-> res.src, tables |-> res.schema]
                 ELSE res.last]
    /\ UNCHANGED << products, server, env, tables, rows, tx, poolSize, live, idle, pending, conn, docs, req >>

\* --------------------------------------------------------- specifications
CustKinds == {"undef", "given"}

\* Rows loaded before the server starts: one order of product "p", without
\* and with its payment.
SeedRows ==
    { Row("orders_header", 0, 0, << >>, 0, 0, 0),
      Row("orders_timestamps", 0, 0, << >>, 0, 0, 0),
      Row("order_items_core", 0, 1, <<"p">>, 0, 0, 0),
      Row("order_item_pricing", 0, 1, << >>, 4, 0, 0) }
SeedPaid ==
    SeedRows \cup
    { Row("payment_type_dim", 0, 0, << >>, 0, 0, 0),
      Row("order_payment_method", 0, 1, << >>, 0, 0, 0),
      Row("order_payment_amount", 0, 1, << >>, 4, 0, 0) }

InitWith(size, programs) ==
    /\ server \in programs
    /\ tables = IF server = "modular" THEN FullSchema \cup {"orders_core"} ELSE FullSchema
    /\ rows \in { {}, SeedRows, SeedPaid }
    /\ tx = [c \in Conns |-> "none"]
    /\ poolSize = size
    /\ live = {}
    /\ idle = << >>
    /\ pending = << >>
    /\ conn = [r \in Reqs |-> 0]
    /\ products = {}
    /\ docs = {}
    /\ req = [r \in Reqs |-> NewReq]
    /\ res = NoRes
    /\ env = NoEnv

\* Requests served one at a time; the pool is never full.
Init == InitWith(MaxReq, Servers)

Next ==
    \/ \E r \in Reqs, b \in Bodies, k \in CustKinds : Arrive(r, b, k, FALSE)
    \/ \E r \in Reqs, hit \in BOOLEAN : Complete(r, hit)
    \/ \E r \in Reqs, hit \in BOOLEAN, m \in 0 .. 2 * MaxItems : CompleteMongo(r, hit, m)
    \/ \E r \in Reqs : Retire(r)

Spec == Init /\ [][Next]_vars

\* The database answers every statement it is sent, with a result or with an
\* error: the promise a handler awaits is settled in the end.
Settled == \A r \in Reqs : WF_vars(\E hit \in BOOLEAN : Complete(r, hit))

SpecLive == Spec /\ Settled

\* Requests that overlap, on a pool smaller than their number: the relational
\* servers, which share the pool among their handlers.  No statement is
\* struck by an outside error here: a statement fails only on what the
\* payloads and the tables make it fail on.
OverlapItems == { Item(<<"p">>, Num(1), Num(5)), Item(<<"q">>, Num(2), Num(3)),
                  Item(<< >>, Num(1), Num(5)) }
OverlapBodies == { [items |-> [k |-> "array", list |-> << it >>]] : it \in OverlapItems }

InitOverlap == InitWith(PoolMax, Servers \ {"mongo"})

NextOverlap ==
    \/ \E r \in Reqs, b \in OverlapBodies, k \in CustKinds : Arrive(r, b, k, TRUE)
    \/ \E r \in Reqs : Complete(r, FALSE)
    \/ \E r \in Reqs : Retire(r)

SpecOverlap == InitOverlap /\ [][NextOverlap]_vars

\* Product queries on a loaded database: two orders over three products and
\* a line item without a pricing row; the same lines in the staging table.
PA == <<"A", "b">>
PB == <<"b", "a">>
PC == <<"a", "_">>
PD == <<"b">>
CatalogRows ==
    { Row("orders_header", 1, 0, << >>, 0, 0, 0),
      Row("orders_timestamps", 1, 0, << >>, 0, 0, 0),
      Row("order_items_core", 1, 1, PA, 0, 0, 0),
      Row("order_item_pricing", 1, 1, << >>, 4, 0, 0),
      Row("order_items_core", 1, 2, PB, 0, 0, 0),
      Row("order_item_pricing", 1, 2, << >>, 6, 0, 0),
      Row("orders_header", 2, 0, << >>, 0, 0, 0),
      Row("orders_timestamps", 2, 0, << >>, 0, 0, 0),
      Row("order_items_core", 2, 1, PA, 0, 0, 0),
      Row("order_item_pricing", 2, 1, << >>, 9, 0, 0),
      Row("order_items_core", 2, 2, PC, 0, 0, 0),
      Row("order_item_pricing", 2, 2, << >>, 2, 0, 0),
      Row("order_items_core", 2, 3, PD, 0, 0, 0),
      Row("orders", 1, 1, PA, 4, 0, 0),
      Row("orders", 1, 2, PB, 6, 0, 0),
      Row("orders", 2, 1, PA, 9, 0, 0),
      Row("orders", 2, 2, PC, 2, 0, 0) }

\* The database after schema.sql (every table), with the staging table
\* alone, with a normalized table missing, or without any table.
CatalogSchemas ==
    { FullSchema, StagingTables, FullSchema \ {"order_item_pricing"}, {} }

InitCatalog ==
    /\ server \in Servers \ {"mongo"}
    /\ tables \in CatalogSchemas
    /\ rows \in { {}, { x \in CatalogRows : x.tab \in tables } }
    /\ tx = [c \in Conns |-> "none"]
    /\ poolSize = MaxReq
    /\ live = {}
    /\ idle = << >>
    /\ pending = << >>
    /\ conn = [r \in Reqs |-> 0]
    /\ products = {}
    /\ docs = {}
    /\ req = [r \in Reqs |-> NewReq]
    /\ res = NoRes
    /\ env = NoEnv

NextCatalog ==
    \/ \E search \in Strings, limit \in Limits, offset \in Offsets, fail \in FailKinds :
          ListProducts(search, limit, offset, fail)
    \/ \E id \in Strings, fail \in FailKinds : ProductDetail(id, fail)
    \/ Delivered

SpecCatalog == InitCatalog /\ [][NextCatalog]_vars

\* Reviews on a loaded database: n reviews of product "p" with a comment,
\* each of its own order and its own day, one review of "p" without a
\* comment and one review of another product.
MaxReviews == 25   \* reviews of one product

ReviewOf(oid, pid, date, msg) ==
    { Row("orders_header", oid, 0, << >>, 0, 0, 0),
      Row("orders_timestamps", oid, 0, << >>, 0, 0, 0),
      Row("order_items_core", oid, 1, pid, 0, 0, 0),
      Row("order_item_pricing", oid, 1, << >>, 5, 0, 0),
      [Row("order_reviews_core", oid, oid, << >>, 0, 0, 0) EXCEPT !.rid = oid, !.date = date],
      [Row("order_review_text", oid, oid, << >>, 0, 0, 0) EXCEPT !.rid = oid, !.msg = msg],
      [Row("orders", oid, 1, pid, 5, 0, 0) EXCEPT !.rid = oid, !.date = date, !.msg = msg] }

ReviewData(n) ==
    UNION { ReviewOf(k, <<"p">>, k, "good") : k \in 1 .. n }
    \cup ReviewOf(n + 1, <<"p">>, n + 1, NULL)
    \cup ReviewOf(n + 2, <<"q">>, n + 2, "fine")

\* the documents of the collection for the same orders (one per line item)
ReviewDocs(n) ==
    { [oid |-> x.oid, n |-> x.n, pid |-> x.pid, price |-> x.price, freight |-> x.freight,
       rid |-> x.rid, date |-> x.date, msg |-> x.msg] :
        x \in { y \in ReviewData(n) : y.tab = "orders" } }

ReviewSchemas == { FullSchema \cup ReviewTables, FullSchema, StagingTables, {} }

QueryValues == { Undef, Num(0), Num(10), Num(20) }
Queries ==
    [limit : { Undef, Num(10), Num(3), NaN }, skip : QueryValues, offset : QueryValues]

InitReviews ==
    /\ server \in {"sql", "mongo"}
    /\ tables \in (IF server = "sql" THEN ReviewSchemas ELSE { {} })
    /\ \E n \in { 0, 10, MaxReviews } :
          /\ rows = (IF server = "sql" THEN { x \in ReviewData(n) : x.tab \in tables } ELSE {})
          /\ products = {}
          /\ docs = (IF server = "mongo" THEN ReviewDocs(n) ELSE {})
    /\ tx = [c \in Conns |-> "none"]
    /\ poolSize = MaxReq
    /\ live = {}
    /\ idle = << >>
    /\ pending = << >>
    /\ conn = [r \in Reqs |-> 0]
    /\ req = [r \in Reqs |-> NewReq]
    /\ res = NoRes
    /\ env = NoEnv

NextReviews ==
    \/ \E id \in { <<"p">>, <<"z">> }, query \in Queries, fail \in FailKinds :
          GetReviews(id, query, fail)
    \/ Delivered

SpecReviews == InitReviews /\ [][NextReviews]_vars

\* The resolver under a changing schema: the three tables it probes exist or
\* not in every combination, and the schema script drops and creates them
\* between the requests.
ProbedTables == { "order_items_core", "order_item_pricing", "orders" }

ResolverSchemas ==
    { (FullSchema \ ProbedTables) \cup T : T \in SUBSET ProbedTables } \cup { {} }

InitResolver ==
    /\ server \in {"sql", "api", "modular"}
    /\ tables \in ResolverSchemas
    /\ rows = { x \in CatalogRows : x.tab \in tables }
    /\ tx = [c \in Conns |-> "none"]
    /\ poolSize = MaxReq
    /\ live = {}
    /\ idle = << >>
    /\ pending = << >>
    /\ conn = [r \in Reqs |-> 0]
    /\ products = {}
    /\ docs = {}
    /\ req = [r \in Reqs |-> NewReq]
    /\ res = NoRes
    /\ env = NoEnv

NextResolver ==
    \/ \E fail \in FailKinds : ListProducts(<< >>, DEFAULT_LIMIT, 0, fail)
    \/ \E id \in { PA, PD }, fail \in FailKinds : ProductDetail(id, fail)
    \/ \E fail \in FailKinds : GetReviews(PA, NoQuery, fail)
    \/ \E t \in ProbedTables : DropTable(t)
    \/ \E t \in ProbedTables : CreateTable(t)
    \/ Delivered

SpecResolver == InitResolver /\ [][NextResolver]_vars

\* The SQL console of the relational servers, under each value of ALLOW_SQL.
EnvValues ==
    { NoEnv } \cup
    { [set |-> TRUE, val |-> v] :
        v \in { << >>, <<"t", "r", "u", "e">>, <<"T", "R", "U", "E">>, <<"T", "r", "u", "e">>,
                <<"f", "a", "l", "s", "e">>, <<"1">>, <<"t", "r", "u", "e", " ">> } }

InitSqlConsole ==
    /\ server \in {"sql", "api", "modular"}
    /\ env \in (IF server = "modular" THEN EnvValues ELSE { NoEnv })
    /\ tables \in { FullSchema, {} }
    /\ rows \in { {}, { x \in CatalogRows : x.tab \in tables } }
    /\ products = {}
    /\ docs = {}
    /\ tx = [c \in Conns |-> "none"]
    /\ poolSize = MaxReq
    /\ live = {}
    /\ idle = << >>
    /\ pending = << >>
    /\ conn = [r \in Reqs |-> 0]
    /\ req = [r \in Reqs |-> NewReq]
    /\ res = NoRes

NextSqlConsole ==
    \/ \E body \in SqlBodies, fail \in BOOLEAN : SqlQuery(body, fail)
    \/ Delivered

SpecSqlConsole == InitSqlConsole /\ [][NextSqlConsole]_vars

\* The command console of the document service and of the command API
\* ("cmd"), on a collection of three documents.
MaxTokens == 5   \* tokens of a command string

Tokens == { Orders, Find, DeleteMany, <<".">>, <<"(">>, <<")">> }

RECURSIVE Concat(_)
Concat(ts) == IF ts = << >> THEN << >> ELSE Head(ts) \o Concat(Tail(ts))

Commands == { Concat(ts) : ts \in UNION { [1 .. n -> Tokens] : n \in 0 .. MaxTokens } }

ArgKinds == {"undef", "array", "object", "null", "string"}

CommandBodies ==
    [collection : { Undef, Str(<< >>), Str(Orders) },
     method : { Undef, Str(<< >>), Str(Find), Str(DeleteMany), Str(Nope) },
     args : ArgKinds, command : { Undef }]
    \cup [collection : { Undef }, method : { Undef }, args : {"undef"},
          command : { Num(5) } \cup { Str(c) : c \in Commands }]

InitCommands ==
    /\ server \in {"mongo", "cmd"}
    /\ env = NoEnv
    /\ tables = {}
    /\ rows = {}
    /\ products = {}
    /\ docs \in { {}, ReviewDocs(1) }
    /\ tx = [c \in Conns |-> "none"]
    /\ poolSize = MaxReq
    /\ live = {}
    /\ idle = << >>
    /\ pending = << >>
    /\ conn = [r \in Reqs |-> 0]
    /\ req = [r \in Reqs |-> NewReq]
    /\ res = NoRes

NextCommands ==
    \/ res.op = "none" /\ \E body \in CommandBodies, fail \in BOOLEAN : MongoCommand(body, fail)
    \/ Delivered

SpecCommands == InitCommands /\ [][NextCommands]_vars

\* Every route of the relational servers but the consoles, on a loaded or an
\* empty database: requests are served one at a time, and any statement of a
\* checkout or of a create may be struck by an error.
ServiceBodies ==
    { NoBody } \cup { [items |-> [k |-> "array", list |-> << it >>]] : it \in ItemKinds }

CreateBodies ==
    [product_id : { << >>, <<"p">> }, sku : { << >>, <<" ">>, <<"q">> },
     quantity : { Undef, Num(2) }, price : { Undef, Num(5), NaN, Num(-5) }]

ServiceSchemas ==
    { FullSchema \cup ReviewTables \cup { MonthlyView }, FullSchema, StagingTables }

InitService ==
    /\ server \in {"sql", "api", "modular"}
    /\ \E T \in ServiceSchemas :
          tables = IF server = "modular" /\ FullSchema \subseteq T
                   THEN T \cup {"orders_core"} ELSE T
    /\ rows \in { {}, { x \in CatalogRows : x.tab \in tables } }
    /\ tx = [c \in Conns |-> "none"]
    /\ poolSize = MaxReq
    /\ live = {}
    /\ idle = << >>
    /\ pending = << >>
    /\ conn = [r \in Reqs |-> 0]
    /\ products = {}
    /\ docs = {}
    /\ req = [r \in Reqs |-> NewReq]
    /\ res = NoRes
    /\ env = NoEnv

\* no handler instance is alive
Quiet == \A r \in Reqs : req[r].pc \in {"new", "retired"}

NextService ==
    \/ Quiet /\ res.op = "none"
          /\ \E r \in Reqs, b \in ServiceBodies, k \in CustKinds : Arrive(r, b, k, TRUE)
    \/ Quiet /\ res.op = "none" /\ \E r \in Reqs, b \in CreateBodies : CreateProduct(r, b)
    \/ \E r \in Reqs, hit \in BOOLEAN : Complete(r, hit)
    \/ \E r \in Reqs : Retire(r)
    \/ Quiet /\ \E fail \in FailKinds : ListProducts(<< >>, DEFAULT_LIMIT, 0, fail)
    \/ Quiet /\ \E id \in { PA, <<"q">> }, fail \in FailKinds : ProductDetail(id, fail)
    \/ Quiet /\ \E fail \in FailKinds : GetReviews(PA, NoQuery, fail)
    \/ Quiet /\ \E fail \in BOOLEAN : MonthlyStats(PA, fail)
    \/ Quiet /\ \E b \in CreateBodies : CreateProductNoop(b)
    \/ Delivered

SpecService == InitService /\ [][NextService]_vars

\* The item numbers of api/server.js for payloads of up to MaxLines items
\* with quantities around the stride of the numbering.
MaxLines == 3      \* items of a payload
MaxQty   == 1001   \* units of one item

Quantities == { 1, 2, ItemStride - 1, ItemStride, MaxQty }
QuantityLists == UNION { [1 .. n -> Quantities] : n \in 1 .. MaxLines }

InitItemIds == InitWith(MaxReq, {"api"})

NextItemIds ==
    \/ res.op = "none" /\ \E qtys \in QuantityLists : GenerateItemIds(qtys)
    \/ Delivered

SpecItemIds == InitItemIds /\ [][NextItemIds]_vars

\* Checkouts of the SQL service followed by GET /api/products/:id.  A product
\* id arrives as it is, between blanks, or twice in one payload.
SP == <<" ", "p">>
CountItems ==
    { Item(<<"p">>, Num(1), Num(5)), Item(<<"q">>, Num(2), Num(3)),
      Item(SP, Num(1), Num(5)), Item(<< >>, Num(1), Num(5)) }
CountLists ==
    { << it >> : it \in CountItems }
    \cup { << Item(<<"p">>, Num(1), Num(5)), Item(<<"p">>, Num(2), Num(3)) >>,
           << Item(<<"q">>, Num(2), Num(3)), Item(SP, Num(1), Num(5)) >> }
CountBodies == { [items |-> [k |-> "array", list |-> L]] : L \in CountLists }
CountIds == { <<"p">>, <<"q">>, SP }

InitCount == InitWith(PoolMax, {"sql"})

NextCount ==
    \/ res.op = "none"
          /\ \E r \in Reqs, b \in CountBodies : Arrive(r, b, "given", TRUE)
    \/ \E r \in Reqs : Complete(r, FALSE)
    \/ \E r \in Reqs : Retire(r)
    \/ (\A r \in Reqs : ~InFlight(req[r]))
          /\ \E id \in CountIds : ProductDetail(id, "none")
    \/ Delivered

SpecCount == InitCount /\ [][NextCount]_vars

\* The document service: admin product creations and checkouts, one after
\* another, with database calls that succeed or fail.
SummaryCreates ==
    [product_id : { << >>, <<"p">>, <<"q">> }, quantity : { Undef, Num(2) },
     price : { Num(5), NaN, Num(-5) }]
SummaryOrders ==
    { [items |-> [k |-> "array", list |-> L]] :
        L \in { << >>, << Item(<<"p">>, Num(1), Num(5)) >>,
                << Item(<<"q">>, Num(2), Num(3)) >>, << Item(<< >>, Num(1), Num(5)) >>,
                << Item(<<"p">>, Num(1), Num(5)), Item(<<"q">>, Num(2), Num(3)) >> } }

InitSummary == InitWith(MaxReq, {"mongo"}) /\ rows = {}

NextSummary ==
    \/ Quiet /\ \E r \in Reqs, b \in SummaryOrders : Arrive(r, b, "given", TRUE)
    \/ \E r \in Reqs, b \in SummaryCreates : MongoCreateProduct(r, b)
    \/ \E r \in Reqs, hit \in BOOLEAN, m \in 0 .. 2 * MaxItems : CompleteMongo(r, hit, m)
    \/ \E r \in Reqs, hit \in BOOLEAN, m \in 0 .. 1 : CompleteMongoCreate(r, hit, m)
    \/ \E r \in Reqs : Retire(r)

SpecSummary == InitSummary /\ [][NextSummary]_vars

\* ================================================================ claims
SeqRange(q) == { q[k] : k \in DOMAIN q }

\* What the specification calls a valid item: a product id, a positive
\* integer quantity and a finite non-negative price.
ValidItem(it) ==
    /\ Trim(it.id) # << >>
    /\ it.quantity.k = "num" /\ it.quantity.v > 0
    /\ it.price.k = "num" /\ it.price.v >= 0

AllValid(list) == \A k \in 1 .. Len(list) : ValidItem(list[k])

RECURSIVE Units(_, _)
Units(list, k) ==
    IF k > Len(list) THEN 0 ELSE list[k].quantity.v + Units(list, k + 1)

\* the committed rows of order oid in table tab
Persisted(tab, oid) == { x \in Committed : x.tab = tab /\ x.oid = oid }

RECURSIVE SumCharged(_)
SumCharged(S) ==
    IF S = {} THEN 0
    ELSE LET x == CHOOSE y \in S : TRUE
         IN  x.price + x.freight + SumCharged(S \ {x})

Created(r) == req[r].pc = "responded" /\ req[r].status = 201

\* C1: a relational checkout answered 201 whose items are all valid, with N
\* units in all, has committed exactly N line-item rows, N pricing rows, one
\* payment-method row and one payment-amount row for its order id, and the
\* total it returns is the sum of price + freight_value over its pricing
\* rows (requests served one at a time).
C1_RowsPerUnit ==
    \A r \in Reqs :
        (server \in {"sql", "api"} /\ Created(r) /\ AllValid(Items(req[r])))
        => LET N == Units(Items(req[r]), 1)
           IN  /\ Cardinality(Persisted("order_items_core", r)) = N
               /\ Cardinality(Persisted("order_item_pricing", r)) = N
               /\ Cardinality(Persisted("order_payment_method", r)) = 1
               /\ Cardinality(Persisted("order_payment_amount", r)) = 1
               /\ req[r].rtotal = SumCharged(Persisted("order_item_pricing", r))

C1_Witness ==
    \E r \in Reqs :
        /\ server = "sql" /\ Created(r) /\ AllValid(Items(req[r]))
        /\ Units(Items(req[r]), 1) = 3
        /\ Cardinality(Persisted("order_item_pricing", r)) = 3

\* every row of order oid, committed or not
RowsOf(oid) == { x \in rows : x.oid = oid }

Refused(r) == req[r].pc = "responded" /\ req[r].status # 201

\* C2: with overlapping checkouts on the shared pool every order is all or
\* nothing: an order answered 201 has its header, its purchase timestamp, a
\* line-item/pricing pair per unit and its two payment rows committed; an
\* order answered 400 has no committed row; and no other order's BEGIN,
\* COMMIT or ROLLBACK commits or removes its rows: while its request is under
\* way and has met no error, none of its rows is committed and its header,
\* once written, is still there.
C2_AllOrNothing ==
    \A r \in Reqs :
        server \in {"sql", "api"} =>
            /\ Created(r) =>
                 /\ Cardinality(Persisted("orders_header", r)) = 1
                 /\ Cardinality(Persisted("orders_timestamps", r)) = 1
                 /\ Cardinality(Persisted("order_items_core", r)) = Units(Items(req[r]), 1)
                 /\ Cardinality(Persisted("order_item_pricing", r)) = Units(Items(req[r]), 1)
                 /\ Cardinality(Persisted("order_payment_method", r)) = 1
                 /\ Cardinality(Persisted("order_payment_amount", r)) = 1
            /\ Refused(r) => \A x \in Committed : x.oid # r
            /\ (InFlight(req[r]) /\ req[r].err = "") =>
                 /\ \A x \in Committed : x.oid # r
                 /\ req[r].pc \notin {"begin", "header"} =>
                      \E x \in rows : x.tab = "orders_header" /\ x.oid = r

\* C3: when one order-creation request, served alone, fails at a statement
\* after BEGIN (a validation throw or an SQL error), then once it is answered
\* no row carrying its order id is left in any table, committed or not, and
\* every table holds the rows it held before the request.
C3_RolledBack ==
    \A r \in Reqs :
        (server \in {"sql", "api", "modular"} /\ Refused(r) /\ req[r].db)
        => /\ RowsOf(r) = {}
           /\ Committed = req[r].before

C3_Witness ==
    \E r \in Reqs :
        /\ server = "sql" /\ Refused(r) /\ req[r].db
        /\ req[r].err = "sql error"
        /\ req[r].n >= 2

\* What the specification calls an invalid item: a non-positive quantity, a
\* non-finite price or an empty product id.
InvalidItem(it) ==
    \/ it.quantity.k = "num" /\ it.quantity.v <= 0
    \/ it.price.k \in {"nan", "inf"}
    \/ Trim(it.id) = << >>

Unchanged(r) == Committed = req[r].before /\ docs = req[r].beforeDocs

\* C4: a checkout whose only item is invalid is answered 400, and the tables
\* (the collection) hold after it what they held before.
C4_OnlyItemInvalid ==
    \A r \in Reqs :
        ( /\ server \in {"sql", "mongo"}
          /\ req[r].pc = "responded"
          /\ Len(Items(req[r])) = 1 /\ InvalidItem(Items(req[r])[1]) )
        => req[r].status = 400 /\ Unchanged(r)

\* the valid items of a list, in order
ValidOnes(list) == SelectSeq(list, ValidItem)

RECURSIVE Charge(_, _)
Charge(list, k) ==
    IF k > Len(list) THEN 0
    ELSE list[k].quantity.v * (list[k].price.v + DEFAULT_FREIGHT_PER_ITEM)
         + Charge(list, k + 1)

\* a list of valid and invalid items, with one of each at least
Mixed(list) ==
    /\ \A k \in DOMAIN list : ValidItem(list[k]) \/ InvalidItem(list[k])
    /\ \E k \in DOMAIN list : ValidItem(list[k])
    /\ \E k \in DOMAIN list : ~ValidItem(list[k])

\* the units checkout r has persisted: pricing rows, or documents
UnitsPersisted(r) ==
    IF server = "mongo" THEN { d \in docs : d.oid = r }
    ELSE Persisted("order_item_pricing", r)

\* C5: in a checkout that mixes valid and invalid items the invalid ones are
\* skipped: when it is answered 201, the units persisted and the total
\* returned are those of the valid items; it is refused for want of items
\* only when no item is valid.
C5_SkipInvalid ==
    \A r \in Reqs :
        (server \in {"sql", "mongo"} /\ req[r].pc = "responded" /\ Mixed(Items(req[r])))
        => /\ Created(r) =>
                /\ Cardinality(UnitsPersisted(r)) = Units(ValidOnes(Items(req[r])), 1)
                /\ req[r].rtotal = Charge(ValidOnes(Items(req[r])), 1)
           /\ req[r].err # "No valid items to insert for this order"

\* C6: every unit price checkout has persisted, in a pricing row or in an
\* order document, is a finite number >= 0.
C6_PricesNonNegative ==
    server \in {"sql", "mongo"} =>
        /\ \A x \in Committed : (x.tab = "order_item_pricing" /\ x.oid \in Reqs) => x.price >= 0
        /\ \A d \in docs : d.price >= 0

\* C7: a checkout whose `items` is missing, not an array or empty is answered
\* 400 and has issued no database statement: it took no client of the pool,
\* sent no BEGIN and wrote no row or document.
C7_NoStatement ==
    \A r \in Reqs :
        (Answered(req[r]) /\ (req[r].body.items.k # "array" \/ Len(Items(req[r])) = 0))
        => /\ req[r].pc = "responded" /\ req[r].status = 400
           /\ ~req[r].db
           /\ conn[r] = 0 /\ \A k \in DOMAIN pending : pending[k] # r
           /\ RowsOf(r) = {} /\ Unchanged(r)

C7_Witness ==
    \E r \in Reqs :
        /\ server = "sql"
        /\ req[r].pc = "responded" /\ req[r].status = 400
        /\ req[r].body.items.k = "scalar"
        /\ ~req[r].db /\ rows # {}

\* the item numbers of the line items of order r
LineNumbers(r) ==
    IF server = "mongo" THEN { d.n : d \in { e \in docs : e.oid = r } }
    ELSE { x.n : x \in Persisted("order_items_core", r) }

\* C8: the line items of an order are numbered 1, 2, ..., N without gap or
\* repeat, and an order created from valid items has N = the number of its
\* units.
C8_ItemNumbers ==
    \A r \in Reqs :
        server \in {"sql", "mongo"} =>
            /\ LineNumbers(r) = 1 .. Cardinality(LineNumbers(r))
            /\ (Created(r) /\ AllValid(Items(req[r])))
                 => LineNumbers(r) = 1 .. Units(Items(req[r]), 1)

\* no row of the product tables carries product id
NoRowFor(id) ==
    ~\E x \in Committed : x.tab \in {"order_items_core", "orders"} /\ x.pid = id

\* C9: GET /api/products/:id for an id that matches no row is answered 404
\* with an `error` field, on the normalized and on the staging source; an
\* answer 200 always carries the product asked for.
C9_NotFound ==
    res.op = "detail" =>
        /\ (NoRowFor(res.arg) /\ ~res.failed) => (res.status = 404 /\ res.error)
        /\ res.status = 200 => (Len(res.body) = 1 /\ res.body[1].id = res.arg)

C9_Witness ==
    /\ res.op = "detail" /\ server = "modular"
    /\ pickProductSource = "normalized" /\ rows # {}
    /\ NoRowFor(res.arg) /\ ~res.failed
    /\ res.status = 404

\* sub occurs in str
Contains(str, sub) ==
    \E k \in 0 .. Len(str) - Len(sub) : SubSeq(str, k + 1, k + Len(sub)) = sub

\* the products of the catalog whose id contains the search string, letter
\* case ignored; all of them for an empty search
Matching(search) ==
    { g.id : g \in { h \in Groups(pickProductSource, server = "sql") :
                       Contains(LowerStr(h.id), LowerStr(Trim(search))) } }

\* C10: GET /api/products?search=s returns products whose id contains s,
\* letter case ignored, and all of them when limit and offset cut nothing
\* off; a search of white space only filters nothing.
C10_SearchSubstring ==
    (res.op = "list" /\ res.status = 200 /\ pickProductSource # "none") =>
        LET ids == { res.body[k].id : k \in DOMAIN res.body }
        IN  /\ ids \subseteq Matching(res.arg)
            /\ (res.offset = 0 /\ res.limit >= Cardinality(Matching(res.arg)))
                 => ids = Matching(res.arg)

\* the reviews the query of GET /api/reviews/:productId qualifies for id
Qualifying(id) ==
    IF server = "mongo" THEN MongoReviewRows(id)
    ELSE SqlReviewRows(pickProductSource, id)

\* C11: for a product with exactly 25 qualifying reviews, GET
\* /api/reviews/:productId?limit=10&skip=s for s = 0, 10, 20 is answered 200
\* with 10, 10 and 5 reviews, hasMore true on the first two pages and false
\* on the third, on the SQL service and on the document service.
C11_ReviewPages ==
    ( /\ res.op = "reviews" /\ res.fail = "none"
      /\ server = "sql" => pickProductSource # "none" /\ ReviewTables \subseteq tables
      /\ Cardinality(Qualifying(res.arg)) = 25
      /\ res.query.limit = Num(10) /\ res.query.offset = Undef
      /\ res.query.skip \in { Num(0), Num(10), Num(20) } )
    => /\ res.status = 200
       /\ Len(res.body) = (IF res.query.skip = Num(20) THEN 5 ELSE 10)
       /\ res.hasMore = (res.query.skip # Num(20))

\* the requests whose handlers call the resolver
Resolving == {"list", "detail", "reviews"}

\* C12: when the resolver returns "none", GET /api/products is answered 200
\* with an empty array and GET /api/products/:id is answered 404; the handler
\* issues no product aggregate query and answers with no 5xx status.
C12_NoneSource ==
    (res.op \in {"list", "detail"} /\ res.src = "none")
    => /\ res.op = "list" => (res.status = 200 /\ res.body = << >>)
       /\ res.op = "detail" => (res.status = 404 /\ res.error)
       /\ \A k \in DOMAIN res.stmts : res.stmts[k].op = "to_regclass"
       /\ res.status < 500

C12_Witness ==
    /\ res.op = "detail" /\ res.src = "none" /\ res.fail = "query"
    /\ server = "api" /\ res.status = 404
    /\ res.last.called /\ res.last.src = "normalized"

\* C13: pickProductSource returns "normalized" exactly when order_items_core
\* and order_item_pricing both exist (with or without orders), "staging"
\* exactly when one of the two is missing and orders exists, "none" in every
\* other case, and never anything else.
C13_SourceVariant ==
    (res.op \in Resolving /\ server \in {"sql", "api", "modular"} /\ res.fail # "probe")
    => LET both == {"order_items_core", "order_item_pricing"} \subseteq res.schema
           flat == "orders" \in res.schema
       IN  /\ res.src \in {"normalized", "staging", "none"}
           /\ res.src = "normalized" <=> both
           /\ res.src = "staging" <=> (~both /\ flat)
           /\ res.src = "none" <=> (~both /\ ~flat)

C13_Witness ==
    /\ res.op \in Resolving /\ server = "modular" /\ res.fail = "none"
    /\ "order_items_core" \in res.schema /\ "order_item_pricing" \notin res.schema
    /\ "orders" \in res.schema
    /\ res.src = "staging"

\* the variant the tables T call for
Variant(T) ==
    IF {"order_items_core", "order_item_pricing"} \subseteq T THEN "normalized"
    ELSE IF "orders" \in T THEN "staging" ELSE "none"

\* C14: two calls of pickProductSource with the same tables return the same
\* variant; every call probes the schema anew, so that a schema change
\* between two calls shows in the second; and a request that calls the
\* resolver leaves the tables, the rows and the documents as they were.
C14_ResolverIdempotent ==
    /\ [](\/ ~(res.op \in Resolving /\ res.src # "" /\ res.last.called)
          \/ /\ res.last.tables = res.schema => res.src = res.last.src
             /\ Variant(res.last.tables) # Variant(res.schema) => res.src # res.last.src
             /\ res.stmts # << >> /\ res.stmts[1].op = "to_regclass")
    /\ [][(res.op = "none" /\ res'.op \in Resolving)
            => (tables' = tables /\ rows' = rows /\ docs' = docs /\ tx' = tx)]_vars

C14_Witness ==
    /\ res.op = "list" /\ res.src = "staging" /\ server = "sql"
    /\ res.last.called /\ res.last.src = "normalized"
    /\ res.last.tables # res.schema

\* C15: an order creation that fails after BEGIN is answered, and before
\* the answer is sent ROLLBACK has been issued and COMMIT has not; the answer
\* is 400 and its `error` is the message of the error that was thrown, be it
\* a validation error or a database error.
C15_RollbackThen400 ==
    \A r \in Reqs :
        ( /\ server \in {"sql", "api", "modular"}
          /\ Answered(req[r]) /\ "begin" \in req[r].sent /\ ~Created(r) )
        => /\ req[r].pc = "responded"
           /\ "rollback" \in req[r].sent
           /\ "commit" \notin req[r].sent
           /\ req[r].status = 400
           /\ req[r].err = req[r].thrown

\* C16: on the modular API, POST /api/postgres/query runs no SQL unless
\* ALLOW_SQL is exactly "true": with the flag unset or different the answer
\* is 403 for every body, and with the flag set a body whose sql is missing
\* or not a string is answered 400, without a statement in either case.
FlagIsTrue == env.set /\ env.val = <<"t", "r", "u", "e">>
NoSqlString == res.arg.sql.k # "str"
C16_GatedBySql ==
    (res.op = "sql" /\ server = "modular") =>
        /\ ~FlagIsTrue => (res.status = 403 /\ res.stmts = << >> /\ rows = res.before)
        /\ (FlagIsTrue /\ NoSqlString) =>
               (res.status = 400 /\ res.stmts = << >> /\ rows = res.before)

\* C16, amended: the same with ALLOW_SQL compared without regard to letter
\* case ("TRUE" and "True" enable the route), and the empty string counted
\* with the missing sql.
FlagEnabled == env.set /\ LowerStr(env.val) = <<"t", "r", "u", "e">>
C16_GatedIgnoringCase ==
    (res.op = "sql" /\ server = "modular") =>
        /\ ~FlagEnabled => (res.status = 403 /\ res.error /\ res.stmts = << >> /\ rows = res.before)
        /\ (FlagEnabled /\ (NoSqlString \/ res.arg.sql.s = "")) =>
               (res.status = 400 /\ res.error /\ res.stmts = << >> /\ rows = res.before)
        /\ res.stmts # << >> => FlagEnabled
C16_Witness ==
    /\ res.op = "sql" /\ server = "modular"
    /\ env.set /\ env.val = <<"f", "a", "l", "s", "e">>
    /\ res.arg.sql = Str("DELETE FROM orders")
    /\ res.status = 403
\* (reachable: under ALLOW_SQL=TRUE the statement runs and removes rows)
C16_UpperCaseRuns ==
    /\ res.op = "sql" /\ server = "modular"
    /\ env.val = <<"T", "R", "U", "E">>
    /\ res.stmts = << Sql("query", "DELETE FROM orders") >>
    /\ res.status = 200 /\ rows # res.before

\* C17: POST /api/mongodb/command invokes a driver method if and only if the
\* request names a collection and a method and that method is a function of
\* the driver's collection; in every other case the answer is 400 with an
\* error and nothing is invoked.
Named ==
    IF server = "mongo"
    THEN IF res.arg.collection.k = "str" /\ res.arg.method.k = "str"
         THEN [ok |-> TRUE, collection |-> res.arg.collection.s, method |-> res.arg.method.s]
         ELSE [ok |-> FALSE, collection |-> << >>, method |-> << >>]
    ELSE IF res.arg.command.k = "str" THEN ParseCommand(res.arg.command.s)
    ELSE [ok |-> FALSE, collection |-> << >>, method |-> << >>]
Invocable ==
    Named.ok /\ Named.collection # << >> /\ Named.method \in DriverMethods
C17_InvokedIffCallable ==
    res.op = "command" =>
        /\ (res.invoked # << >>) <=> Invocable
        /\ ~Invocable => (res.status = 400 /\ res.error /\ docs = res.beforeDocs)
\* (reachable: collection and method name a function, args cannot be
\* spread, nothing is invoked)
C17_ArgsNotSpread ==
    /\ res.op = "command" /\ server = "mongo"
    /\ Invocable /\ res.arg.args = "object"
    /\ res.invoked = << >> /\ res.status = 400
\* (reachable: a string command with an empty collection name, invoked)
C17_EmptyCollectionInvoked ==
    /\ res.op = "command" /\ server = "cmd"
    /\ Named.ok /\ Named.collection = << >>
    /\ res.invoked # << >>

\* C18: a database error raised by an existence probe of the resolver is
\* answered 500 with a JSON error on every route that calls the resolver:
\* product list, product detail, reviews, and the checkout and the create
\* that probe the schema.
ProbePcs == {"probe_core", "probe_pricing", "probe_orders"}
C18_ProbeError500 ==
    /\ (res.op \in Resolving /\ res.fail = "probe") => (res.status = 500 /\ res.error)
    /\ \A r \in Reqs :
          (req[r].at \in ProbePcs /\ Answered(req[r])) =>
              (req[r].pc = "responded" /\ req[r].status = 500)
\* (reachable: the three GET routes answer 500; the checkout of api/server.js
\* answers 400 after ROLLBACK; the create of the SQL service sends nothing)
C18_GetAnswers500 ==
    res.op = "reviews" /\ res.fail = "probe" /\ res.status = 500 /\ server = "sql"
C18_CheckoutAnswers400 ==
    \E r \in Reqs :
        /\ server = "api" /\ req[r].route = "orders" /\ req[r].at = "probe_core"
        /\ req[r].pc = "responded" /\ req[r].status = 400 /\ "rollback" \in req[r].sent
C18_CreateSendsNothing ==
    \E r \in Reqs :
        /\ server = "sql" /\ req[r].route = "products" /\ req[r].at = "probe_pricing"
        /\ req[r].pc = "rejected" /\ req[r].status = 0

\* C19: the no-op POST /api/products issues no statement: with sku the answer
\* is 201 with a product whose id is the sku and whose order_count is 0,
\* without sku it is 400; in both cases the database is what it was before
\* the request, and GET /api/products/:id for that sku answers as it would
\* have before.
DetailOf(id) ==
    IF server = "api" THEN ApiProductDetail(id, "none") ELSE SvcProductDetail(id, "none")
C19_NoopCreate ==
    /\ [](res.op = "create" =>
            /\ res.stmts = << >> /\ rows = res.before /\ tables = res.schema
            /\ res.arg.sku # << >> =>
                  /\ res.status = 201 /\ Len(res.body) = 1
                  /\ res.body[1].id = res.arg.sku /\ res.body[1].order_count = 0
            /\ res.arg.sku = << >> => (res.status = 400 /\ res.error))
    /\ [][\A b \in CreateBodies :
            (res.op = "none" /\ res'.op = "create" /\ res'.arg = b) =>
                /\ rows' = rows /\ tables' = tables /\ tx' = tx /\ docs' = docs
                /\ DetailOf(b.sku)' = DetailOf(b.sku)]_vars
C19_Witness ==
    /\ res.op = "create" /\ server = "modular"
    /\ res.arg.sku = <<"q">> /\ res.arg.product_id = << >>
    /\ res.status = 201 /\ res.body[1].id = <<"q">>
    /\ rows # {}

\* C20: across product-list, product-detail, review, monthly-stats, checkout
\* and create requests, no committed header, timestamp, line-item, pricing or
\* payment row is updated or deleted: a row that is committed stays, with
\* its values, in every later state.
C20_CommittedRowsStay ==
    [][{ x \in Committed : x.tab \in NormalizedTables } \subseteq Committed']_vars
C20_Witness ==
    \E r \in Reqs :
        /\ req[r].pc = "responded" /\ "rollback" \in req[r].sent
        /\ \E x \in Committed : x.oid = r /\ x.tab = "orders_header"
        /\ req[r].before # {} /\ req[r].before \subseteq Committed

\* C21: createOrder releases the client it took from the pool exactly once
\* on every path, never before COMMIT or ROLLBACK has been issued, and holds
\* no client after it has returned or thrown.
C21_ReleasedOnce ==
    server = "modular" =>
        \A r \in Reqs :
            /\ req[r].rel <= 1
            /\ req[r].rel = 1 => ({"commit", "rollback"} \cap req[r].sent # {})
            /\ InFlight(req[r]) => (req[r].rel = 0 /\ (conn[r] # 0 \/ r \in SeqRange(pending)))
            /\ Answered(req[r]) =>
                  /\ conn[r] = 0 /\ r \notin SeqRange(pending)
                  /\ req[r].rel = (IF req[r].db THEN 1 ELSE 0)
C21_Witness ==
    /\ server = "modular"
    /\ \E r \in Reqs :
          /\ req[r].pc = "responded" /\ req[r].status = 500
          /\ req[r].sent = {"begin", "rollback"} /\ req[r].rel = 1
          /\ conn[r] = 0 /\ live = {}

\* C22: every POST /api/orders that passes the test of `items` is answered in
\* the end, and once: 201 after COMMIT, and 400 with an error string after a
\* failure of any statement, BEGIN and the ROLLBACK of the error path
\* included (checkout of api/server.js and of the SQL service).
Checkout(r) == server \in {"sql", "api"} /\ req[r].route = "orders"
C22_AlwaysAnswered ==
    \A r \in Reqs :
        /\ (Checkout(r) /\ InFlight(req[r])) ~> (req[r].pc = "responded")
        /\ [](Checkout(r) /\ req[r].db /\ Answered(req[r]) =>
                /\ req[r].pc = "responded"
                /\ \/ req[r].status = 201 /\ "commit" \in req[r].sent
                   \/ req[r].status = 400 /\ req[r].err # "")
\* (the same for the SQL service alone, whose catch block swallows a failing
\* ROLLBACK)
C22_SqlServiceAnswers ==
    \A r \in Reqs :
        (server = "sql" /\ req[r].route = "orders" /\ InFlight(req[r]))
            ~> (req[r].pc = "responded" /\ req[r].status \in {201, 400})
\* (reachable: in api/server.js the ROLLBACK of the catch block failed and the
\* handler ended without a response)
C22_NoResponse ==
    \E r \in Reqs :
        /\ server = "api" /\ req[r].pc = "rejected"
        /\ "rollback" \in req[r].sent /\ req[r].status = 0

\* C23: the payment-type insert is idempotent: after any number of checkouts
\* and creates, one after the other or overlapping, payment_type_dim holds
\* exactly one "manual" row, the insert never fails because the row is
\* there already, and every committed order_payment_method row refers to a
\* payment type that payment_type_dim holds.
PaymentTypes(S) == { x \in S : x.tab = "payment_type_dim" }
Paid(r) ==
    /\ server \in {"sql", "api"}
    /\ req[r].pc = "responded" /\ req[r].status = 201
C23_OneManualRow == Cardinality(PaymentTypes(rows)) <= 1
C23_RowAfterCheckout == (\E r \in Reqs : Paid(r)) => Cardinality(PaymentTypes(Committed)) = 1
C23_InsertNeverFails == \A r \in Reqs : req[r].at # "ptype"
C23_MethodHasType ==
    \A x \in Committed : x.tab = "order_payment_method" => PaymentTypes(Committed) # {}
C23_PaymentTypeIdempotent ==
    /\ C23_OneManualRow
    /\ C23_RowAfterCheckout
    /\ C23_InsertNeverFails
    /\ C23_MethodHasType

\* C24: a checkout of the SQL service issues its statements in an order that
\* satisfies every foreign key when each insert is made: the header before
\* the timestamp, every line item and the payment method; each line item
\* before the pricing row of the same item number; the payment type before
\* the payment method, that before the payment amount; COMMIT after all.
Before(L, k, pc) == \E j \in 1 .. k - 1 : L[j].pc = pc
Inserts == {"header", "ts", "core", "pricing", "ptype", "pmethod", "pamount"}
KeysInOrder(L) ==
    \A k \in 1 .. Len(L) :
        /\ L[k].pc \in {"ts", "core", "pmethod"} => Before(L, k, "header")
        /\ L[k].pc = "pricing" => \E j \in 1 .. k - 1 : L[j].pc = "core" /\ L[j].n = L[k].n
        /\ L[k].pc = "pmethod" => Before(L, k, "ptype")
        /\ L[k].pc = "pamount" => Before(L, k, "pmethod")
        /\ L[k].pc = "commit" =>
              /\ Inserts \subseteq { L[j].pc : j \in 1 .. k - 1 }
              /\ \A j \in k + 1 .. Len(L) : L[j].pc \notin Inserts
        /\ L[k].pc \in Inserts => Before(L, k, "begin")
C24_ForeignKeyOrder ==
    \A r \in Reqs :
        (server = "sql" /\ req[r].route = "orders") => KeysInOrder(req[r].log)
C24_Witness ==
    \E r \in Reqs :
        /\ server = "sql" /\ req[r].route = "orders"
        /\ req[r].pc = "responded" /\ req[r].status = 201
        /\ Len(req[r].log) = 13 /\ req[r].log[13].pc = "commit"
        /\ Cardinality({ k \in 1 .. 13 : req[r].log[k].pc = "core" }) = 3

\* C25: in the checkout of api/server.js the keys (order_id, order_item_id)
\* of one request are pairwise distinct for every payload, with any number
\* of items and any positive quantity of each.
C25_DistinctItemIds ==
    res.op = "keys" =>
        Cardinality({ res.body[k] : k \in DOMAIN res.body }) = Len(res.body)
\* (reachable: unit 1001 of the first item and unit 1 of the second are both
\* numbered 1001)
C25_SameNumberTwice ==
    /\ res.op = "keys" /\ res.arg = << MaxQty, 1 >>
    /\ res.body[1001] = 1001 /\ res.body[1002] = 1001
\* (for quantities up to the stride the numbers are distinct)
C25_DistinctUpToStride ==
    (res.op = "keys" /\ \A k \in DOMAIN res.arg : res.arg[k] <= ItemStride) =>
        Cardinality({ res.body[k] : k \in DOMAIN res.body }) = Len(res.body)
\* C26: after a checkout of the SQL service answered 201 that inserted k
\* units of product id p, GET /api/products/:id for p under the normalized
\* source answers 200 with an order_count k greater than the one before the
\* checkout (0 when the product was unknown).  The answer is compared while
\* no other checkout has been answered 201 since this one arrived.
CountIn(S, pid) ==
    Cardinality({ x \in S :
        /\ x.tab = "order_item_pricing"
        /\ \E y \in S : /\ y.tab = "order_items_core" /\ y.pid = pid
                        /\ y.oid = x.oid /\ y.n = x.n })
RECURSIVE UnitsFrom(_, _, _)
UnitsFrom(L, pid, j) ==
    IF j > Len(L) THEN 0
    ELSE (IF SqlItemOk(L[j]) /\ Trim(L[j].id) = pid THEN SqlQty(L[j]) ELSE 0)
         + UnitsFrom(L, pid, j + 1)
Counted(r) ==
    /\ server = "sql" /\ req[r].route = "orders"
    /\ req[r].pc = "responded" /\ req[r].status = 201
    /\ res.op = "detail" /\ res.src = "normalized"
    /\ \A r2 \in Reqs \ {r} :
          \/ req[r2].pc = "new"
          \/ req[r2].pc = "responded" /\ req[r2].status # 201
C26_CountGrowsByUnits ==
    \A r \in Reqs :
        (Counted(r) /\ UnitsFrom(Items(req[r]), res.arg, 1) > 0) =>
            /\ res.status = 200
            /\ res.body[1].order_count
                   = CountIn(req[r].before, res.arg) + UnitsFrom(Items(req[r]), res.arg, 1)
\* (the relation holds of a checkout served alone)
C26_CountGrowsAlone ==
    \A r \in Reqs :
        (/\ Counted(r) /\ UnitsFrom(Items(req[r]), res.arg, 1) > 0
         /\ \A r2 \in Reqs \ {r} : req[r2].pc = "new") =>
            /\ res.status = 200
            /\ res.body[1].order_count
                   = CountIn(req[r].before, res.arg) + UnitsFrom(Items(req[r]), res.arg, 1)
\* (reachable: the id sent between blanks is stored trimmed, and the GET for
\* the id as it was sent answers 404)
C26_SentIdNotFound ==
    \E r \in Reqs :
        /\ Counted(r) /\ \A r2 \in Reqs \ {r} : req[r2].pc = "new"
        /\ Items(req[r]) = << Item(SP, Num(1), Num(5)) >>
        /\ res.arg = SP /\ res.status = 404
\* C27: in the document service, whenever no request is being served, the
\* order_count stored in the products collection for a product id equals the
\* number of per-unit order documents of that product id in the orders
\* collection (all of them written by the API, the collections being empty
\* at the start).
OrdersOf(pid) == { d \in docs : d.pid = pid }
C27_CountEqualsOrders ==
    (server = "mongo" /\ \A r \in Reqs : ~InFlight(req[r])) =>
        \A p \in products : p.order_count = Cardinality(OrdersOf(p.pid))
\* (the count is right when the creation that has just been answered 201 is
\* the first request of the run)
C27_CountAfterFirstCreation ==
    (/\ server = "mongo" /\ req[1].route = "products"
     /\ req[1].pc = "responded" /\ req[1].status = 201) =>
        /\ products # {}
        /\ \A p \in products : p.order_count = Cardinality(OrdersOf(p.pid))
\* (reachable: a checkout of a created product leaves its count behind)
C27_CheckoutNotCounted ==
    /\ server = "mongo" /\ req[2].route = "orders"
    /\ req[2].pc = "responded" /\ req[2].status = 201
    /\ \E p \in products : p.order_count < Cardinality(OrdersOf(p.pid))
\* (reachable: a creation answered 400 after its order documents were written)
C27_FailedCreationWrites ==
    /\ server = "mongo" /\ req[1].route = "products"
    /\ req[1].pc = "responded" /\ req[1].status = 400
    /\ docs # {} /\ products = {}
\* C28: the reviews endpoints report hasMore exactly when the page holds
\* `limit` reviews: false on a shorter page, true on a full one.  So when the
\* number of qualifying reviews is a positive multiple of limit, the last
\* non-empty page reports hasMore true and the page after it is empty with
\* hasMore false.
PageLimit == QueryInt(res.query.limit, 10).v
PageStart ==
    IF server = "sql" THEN QueryInt(res.query.offset, 0).v
    ELSE QueryInt(res.query.skip, 0).v
C28_HasMoreIffFullPage ==
    (res.op = "reviews" /\ res.status = 200) =>
        LET total == Cardinality(Qualifying(res.arg))
        IN  /\ Len(res.body) <= PageLimit
            /\ res.hasMore = (Len(res.body) = PageLimit)
            /\ (total > 0 /\ total % PageLimit = 0) =>
                  /\ PageStart = total - PageLimit =>
                        (Len(res.body) = PageLimit /\ res.hasMore)
                  /\ PageStart = total => (res.body = << >> /\ ~res.hasMore)
C28_Witness ==
    /\ res.op = "reviews" /\ res.status = 200
    /\ Cardinality(Qualifying(res.arg)) = 10 /\ PageLimit = 10 /\ PageStart = 0
    /\ Len(res.body) = 10 /\ res.hasMore
\* (reachable: the page after the last review, empty, with hasMore false)
C28_EmptyNextPage ==
    /\ res.op = "reviews" /\ res.status = 200
    /\ Cardinality(Qualifying(res.arg)) = 10 /\ PageLimit = 10 /\ PageStart = 10
    /\ res.body = << >> /\ ~res.hasMore
\* C29: for every combination of existence of order_items_core,
\* order_item_pricing and orders, the resolver of the service module and the
\* resolver of the monolithic server return the same variant, and they issue
\* a different number of existence probes: one to three the former, two or
\* three the latter.
Resolved ==
    /\ res.op \in {"list", "detail"} /\ res.fail = "none" /\ res.schema = tables
    /\ server \in {"modular", "api"}
HandlerProbes == IF server = "modular" THEN SvcProbes ELSE Probes
SameVariant ==
    /\ SvcPickProductSource = pickProductSource
    /\ Resolved =>
          /\ res.src = pickProductSource
          /\ SubSeq(res.stmts, 1, Len(HandlerProbes)) = HandlerProbes
C29_SameVariantOtherCount ==
    /\ SameVariant
    /\ Len(SvcProbes) \in 1 .. 3 /\ Len(Probes) \in 2 .. 3
    /\ Len(SvcProbes) # Len(Probes)
\* C29 (amended): the two resolvers return the same variant in every
\* combination; each issues two or three probes, the service module one
\* fewer than the monolithic server exactly when order_items_core is
\* missing (two against three) and the same number otherwise.
C29_SameVariantFewerProbes ==
    /\ SameVariant
    /\ Len(SvcProbes) \in 2 .. 3 /\ Len(Probes) \in 2 .. 3
    /\ Len(Probes) - Len(SvcProbes) = (IF tableExists("order_items_core") THEN 0 ELSE 1)
C29_Witness ==
    /\ Resolved /\ server = "modular"
    /\ ~tableExists("order_items_core") /\ tableExists("order_item_pricing")
    /\ tableExists("orders")
    /\ res.src = "staging" /\ pickProductSource = "staging"
    /\ Len(SvcProbes) = 2 /\ Len(Probes) = 3
\* C30: every identifier that a relational checkout writes into a CHAR(32)
\* column is at most 32 characters long, and a checkout that omits
\* customer_id is never rejected because of the column width.
Relational(r) ==
    /\ server \in {"sql", "api"} /\ req[r].route = "orders"
WritesIdentifier(r) ==
    /\ Relational(r) /\ InFlight(req[r])
    /\ StmtOf(r, req[r]).op = "insert"
C30_IdentifiersFit ==
    \A r \in Reqs :
        /\ WritesIdentifier(r) => StmtOf(r, req[r]).len <= CharWidth
        /\ (Relational(r) /\ req[r].cust = "undef" /\ req[r].pc = "responded")
              => req[r].at # "header"
\* (the identifiers of the SQL service fit)
C30_SqlServiceFits ==
    \A r \in Reqs :
        (server = "sql" /\ WritesIdentifier(r)) => StmtOf(r, req[r]).len <= CharWidth
\* (reachable: api/server.js answers 400 to a checkout without customer_id,
\* its header insert refused)
C30_GuestRejected ==
    \E r \in Reqs :
        /\ server = "api" /\ req[r].route = "orders" /\ req[r].cust = "undef"
        /\ req[r].pc = "responded" /\ req[r].status = 400 /\ req[r].at = "header"
        /\ tables = FullSchema /\ req[r].before = {}
====
